---- MODULE Spec2Model ----
(***************************************************************************)
(* TemplateManager of src/src/templates.js as a state machine, with the    *)
(* PromptAnalyzer of src/src/analyzer.js and the PromptEnhancer of         *)
(* src/unnamed/part_002 that the host connects to it.                      *)
(*                                                                         *)
(* The prompt an analyzer reads is a string of characters; a grave accent  *)
(* in it is written ~.                                                     *)
(*                                                                         *)
(* Strings are sequences of atoms.  Text that an operation inspects        *)
(* character by character (template names fed to generateTemplateId,       *)
(* generated ids) is spelled one character per atom; text that is only     *)
(* copied or compared as a whole (literal prose of a content, a system     *)
(* id, a description) is packed into one atom.  A placeholder {key} of a   *)
(* content is the three atoms "{", key, "}".  In packed text the grave     *)
(* accent of a code fence is written ~ and the arrow U+2192 is written ->. *)
(***************************************************************************)
EXTENDS Integers, Sequences, FiniteSets, TLC

\* ------------------------------------------------------------------------
\* Bounds of the exploration
\* ------------------------------------------------------------------------
\* number of operations called on the store after its construction
MaxOps == 3

\* ------------------------------------------------------------------------
\* JavaScript values
\* ------------------------------------------------------------------------
Str(s) == <<s>>

\* the value of a property that is not there
undefined == <<"undefined">>

\* truthiness of a string-valued property: undefined and "" are falsy
Truthy(s) == s # <<>> /\ s # undefined

Includes(seq, x) == \E i \in 1..Len(seq) : seq[i] = x

Filter(seq, x) == SelectSeq(seq, LAMBDA y : y # x)

Slice(seq, n) == IF Len(seq) <= n THEN seq ELSE SubSeq(seq, 1, n)

\* a JS Map keeps its entries in insertion order
MapKeySet(m) == {m[i].key : i \in 1..Len(m)}

MapHas(m, k) == k \in MapKeySet(m)

MapIndex(m, k) == CHOOSE i \in 1..Len(m) : m[i].key = k

MapGet(m, k) == m[MapIndex(m, k)].value

MapSet(m, k, v) ==
  IF MapHas(m, k) THEN [m EXCEPT ![MapIndex(m, k)].value = v]
  ELSE Append(m, [key |-> k, value |-> v])

MapDelete(m, k) == SelectSeq(m, LAMBDA e : e.key # k)

MapValues(m) == [i \in 1..Len(m) |-> m[i].value]

\* ------------------------------------------------------------------------
\* Default templates (object literals passed to addTemplate by the
\* constructor; they carry no isUserCreated, usageCount or timestamps)
\* ------------------------------------------------------------------------
\* templates.js:71-90
T_general_detailed_request ==
  [id |-> Str("general_detailed_request"), category |-> Str("general"), name |-> Str("Detailed Request"),
   description |-> Str("Comprehensive template for detailed information requests"),
   priority |-> 90, addresses |-> {"vagueness", "context", "specificity"}, isUserCreated |-> FALSE,
   usageCount |-> 0, lastUsed |-> 0, createdAt |-> 0, updatedAt |-> 0,
   content |->
     << "**Context:** ",
        "{",
        "context",
        "}",
        "\n\n**Request:** Please provide comprehensive information about ",
        "{",
        "topic",
        "}",
        ".\n\n**Requirements:**\n- ",
        "{",
        "requirements",
        "}",
        "\n- Include practical examples\n- Explain step-by-step if applicable\n- Provide relevant background information\n\n**Format:** Please organize your response with clear headings and bullet points for easy reading." >>]

\* templates.js:92-113
T_general_problem_solving ==
  [id |-> Str("general_problem_solving"), category |-> Str("general"), name |-> Str("Problem Solving"),
   description |-> Str("Template for solving specific problems"),
   priority |-> 85, addresses |-> {"context", "specificity"}, isUserCreated |-> FALSE,
   usageCount |-> 0, lastUsed |-> 0, createdAt |-> 0, updatedAt |-> 0,
   content |->
     << "**Problem:** ",
        "{",
        "problem",
        "}",
        "\n\n**Context:** ",
        "{",
        "context",
        "}",
        "\n\n**Constraints:** ",
        "{",
        "constraints",
        "}",
        "\n\n**Request:** Please help me solve this problem by:\n1. Analyzing the situation\n2. Identifying possible solutions\n3. Recommending the best approach\n4. Providing step-by-step implementation guidance\n\n**Expected Outcome:** A practical solution that I can implement immediately." >>]

\* templates.js:116-144
T_tech_code_help ==
  [id |-> Str("tech_code_help"), category |-> Str("technical"), name |-> Str("Code Help"),
   description |-> Str("Template for programming assistance"),
   priority |-> 95, addresses |-> {"context", "specificity", "format"}, isUserCreated |-> FALSE,
   usageCount |-> 0, lastUsed |-> 0, createdAt |-> 0, updatedAt |-> 0,
   content |->
     << "**Programming Language:** ",
        "{",
        "language",
        "}",
        "\n\n**Environment:** ",
        "{",
        "environment",
        "}",
        "\n\n**Problem:** ",
        "{",
        "problem",
        "}",
        "\n\n**Constraints:** ",
        "{",
        "constraints",
        "}",
        "\n\n**Request:** Please help me with this coding challenge by providing:\n1. Clear explanation of the approach\n2. Well-commented code example\n3. Alternative solutions if applicable\n4. Best practices and potential pitfalls\n5. Testing suggestions\n\n**Code Quality Requirements:**\n- Follow language best practices\n- Include error handling\n- Add meaningful comments\n- Optimize for readability and performance" >>]

\* templates.js:146-173
T_tech_debugging ==
  [id |-> Str("tech_debugging"), category |-> Str("technical"), name |-> Str("Debugging Help"),
   description |-> Str("Template for debugging assistance"),
   priority |-> 90, addresses |-> {"context", "specificity"}, isUserCreated |-> FALSE,
   usageCount |-> 0, lastUsed |-> 0, createdAt |-> 0, updatedAt |-> 0,
   content |->
     << "**Issue Description:** ",
        "{",
        "issue",
        "}",
        "\n\n**Environment:**\n- ",
        "{",
        "environment",
        "}",
        "\n\n**Error Message:** ",
        "{",
        "error",
        "}",
        "\n\n**Relevant Code:**\n~~~\n",
        "{",
        "code",
        "}",
        "\n~~~\n\n**Request:** Please help me debug this issue by:\n1. Identifying the root cause\n2. Explaining why this error occurs\n3. Providing the corrected code\n4. Suggesting prevention strategies\n\n**Additional Context:** [Any recent changes, expected behavior, or additional details]" >>]

\* templates.js:176-201
T_creative_brainstorming ==
  [id |-> Str("creative_brainstorming"), category |-> Str("creative"), name |-> Str("Creative Brainstorming"),
   description |-> Str("Template for generating creative ideas"),
   priority |-> 80, addresses |-> {"context", "format"}, isUserCreated |-> FALSE,
   usageCount |-> 0, lastUsed |-> 0, createdAt |-> 0, updatedAt |-> 0,
   content |->
     << "**Creative Brief:**\n- **Topic:** ",
        "{",
        "topic",
        "}",
        "\n- **Target Audience:** ",
        "{",
        "audience",
        "}",
        "\n- **Goals:** ",
        "{",
        "goals",
        "}",
        "\n- **Constraints:** ",
        "{",
        "constraints",
        "}",
        "\n\n**Request:** Please help me brainstorm creative ideas by:\n1. Generating diverse, innovative concepts\n2. Explaining the rationale behind each idea\n3. Considering different perspectives and approaches\n4. Providing implementation suggestions\n\n**Desired Output:**\n- 5-10 unique ideas\n- Brief explanation for each\n- Pros and cons analysis\n- Next steps for development" >>]

\* templates.js:204-240
T_analysis_data_review ==
  [id |-> Str("analysis_data_review"), category |-> Str("analysis"), name |-> Str("Data Analysis"),
   description |-> Str("Template for data analysis requests"),
   priority |-> 85, addresses |-> {"context", "specificity", "format"}, isUserCreated |-> FALSE,
   usageCount |-> 0, lastUsed |-> 0, createdAt |-> 0, updatedAt |-> 0,
   content |->
     << "**Analysis Objective:** ",
        "{",
        "objective",
        "}",
        "\n\n**Dataset Description:** ",
        "{",
        "dataset",
        "}",
        "\n\n**Methodology Preferences:** ",
        "{",
        "methodology",
        "}",
        "\n\n**Constraints:** ",
        "{",
        "constraints",
        "}",
        "\n\n**Request:** Please analyze this data and provide:\n\n**1. Initial Assessment:**\n- Data quality evaluation\n- Key patterns and trends\n- Potential issues or limitations\n\n**2. Detailed Analysis:**\n- Statistical summaries\n- Correlation analysis\n- Trend identification\n- Anomaly detection\n\n**3. Insights and Recommendations:**\n- Key findings\n- Business implications\n- Recommended actions\n- Areas for further investigation\n\n**Deliverables:** Clear visualizations, statistical results, and actionable insights." >>]

\* templates.js:243-278
T_business_strategy ==
  [id |-> Str("business_strategy"), category |-> Str("business"), name |-> Str("Business Strategy"),
   description |-> Str("Template for business strategy discussions"),
   priority |-> 85, addresses |-> {"context", "specificity"}, isUserCreated |-> FALSE,
   usageCount |-> 0, lastUsed |-> 0, createdAt |-> 0, updatedAt |-> 0,
   content |->
     << "**Business Situation:** ",
        "{",
        "situation",
        "}",
        "\n\n**Objectives:** ",
        "{",
        "objectives",
        "}",
        "\n\n**Constraints:** ",
        "{",
        "constraints",
        "}",
        "\n\n**Timeline:** ",
        "{",
        "timeline",
        "}",
        "\n\n**Strategic Request:** Please help me develop a business strategy by addressing:\n\n**1. Situation Analysis:**\n- Current state assessment\n- Market opportunities and threats\n- Internal strengths and weaknesses\n\n**2. Strategic Options:**\n- Multiple strategic approaches\n- Risk assessment for each option\n- Resource requirements\n\n**3. Implementation Plan:**\n- Prioritized action items\n- Timeline and milestones\n- Success metrics\n- Risk mitigation strategies\n\n**Expected Outcome:** A practical, actionable strategy that aligns with our objectives and constraints." >>]

\* templates.js:281-320
T_academic_research ==
  [id |-> Str("academic_research"), category |-> Str("academic"), name |-> Str("Research Assistance"),
   description |-> Str("Template for academic research help"),
   priority |-> 85, addresses |-> {"context", "specificity", "format"}, isUserCreated |-> FALSE,
   usageCount |-> 0, lastUsed |-> 0, createdAt |-> 0, updatedAt |-> 0,
   content |->
     << "**Research Topic:** ",
        "{",
        "topic",
        "}",
        "\n\n**Scope:** ",
        "{",
        "scope",
        "}",
        "\n\n**Methodology:** ",
        "{",
        "methodology",
        "}",
        "\n\n**Source Requirements:** ",
        "{",
        "sources",
        "}",
        "\n\n**Research Request:** Please assist with this research by providing:\n\n**1. Literature Review:**\n- Key theories and concepts\n- Recent developments in the field\n- Gaps in current research\n\n**2. Research Framework:**\n- Suggested methodology\n- Data collection approaches\n- Analysis techniques\n\n**3. Academic Resources:**\n- Relevant academic papers\n- Key authors and experts\n- Important databases and sources\n\n**4. Structure Guidance:**\n- Outline suggestions\n- Key arguments to address\n- Potential counterarguments\n\n**Academic Standards:** Please ensure all suggestions meet academic rigor and citation requirements." >>]

\* templates.js:323-351
T_role_expert_consultant ==
  [id |-> Str("role_expert_consultant"), category |-> Str("general"), name |-> Str("Expert Consultant"),
   description |-> Str("Template with expert role definition"),
   priority |-> 75, addresses |-> {"role", "context"}, isUserCreated |-> FALSE,
   usageCount |-> 0, lastUsed |-> 0, createdAt |-> 0, updatedAt |-> 0,
   content |->
     << "Act as an expert consultant with deep expertise in ",
        "{",
        "expertise",
        "}",
        ".\n\n**Context:** ",
        "{",
        "context",
        "}",
        "\n\n**Challenge:** ",
        "{",
        "problem",
        "}",
        "\n\n**Your Mission:** Provide expert-level guidance that demonstrates:\n- Deep understanding of the subject matter\n- Practical, actionable recommendations\n- Industry best practices and standards\n- Potential risks and mitigation strategies\n- Implementation considerations\n\n**Deliverable Style:**\n- Professional and authoritative tone\n- Evidence-based recommendations\n- Clear explanation of reasoning\n- Structured, easy-to-follow format\n\nPlease draw upon your expertise to provide comprehensive guidance that a senior consultant would deliver to an important client." >>]

\* templates.js:354-372
T_quick_context_boost ==
  [id |-> Str("quick_context_boost"), category |-> Str("general"), name |-> Str("Context Booster"),
   description |-> Str("Quick template to add context"),
   priority |-> 60, addresses |-> {"context"}, isUserCreated |-> FALSE,
   usageCount |-> 0, lastUsed |-> 0, createdAt |-> 0, updatedAt |-> 0,
   content |->
     << "**Background Context:** I'm working on a project where [describe your situation, role, and goals].\n\n**Specific Challenge:** ",
        "{",
        "original_prompt",
        "}",
        "\n\n**Additional Context:** \n- My experience level: [beginner/intermediate/advanced]\n- Timeline: [immediate/this week/flexible]\n- Resources available: [time, tools, budget constraints]\n\nPlease provide guidance that takes this context into account." >>]

\* templates.js:374-392
T_quick_format_specifier ==
  [id |-> Str("quick_format_specifier"), category |-> Str("general"), name |-> Str("Format Specifier"),
   description |-> Str("Quick template to specify output format"),
   priority |-> 55, addresses |-> {"format"}, isUserCreated |-> FALSE,
   usageCount |-> 0, lastUsed |-> 0, createdAt |-> 0, updatedAt |-> 0,
   content |->
     << "{",
        "original_prompt",
        "}",
        "\n\n**Please format your response as:**\n- Clear headings for main sections\n- Bullet points for key information\n- Numbered steps for processes\n- Examples where applicable\n- Summary of key takeaways\n\n**Structure:** Introduction -> Main Content -> Practical Examples -> Summary/Next Steps" >>]

DefaultTemplates ==
  << T_general_detailed_request, T_general_problem_solving, T_tech_code_help,
     T_tech_debugging, T_creative_brainstorming, T_analysis_data_review,
     T_business_strategy, T_academic_research, T_role_expert_consultant,
     T_quick_context_boost, T_quick_format_specifier >>

CategoryIds ==
  { Str("general"), Str("technical"), Str("creative"),
    Str("analysis"), Str("business"), Str("academic") }

\* ------------------------------------------------------------------------
\* Outcome of a call: the store after it, the message of the Error thrown
\* ("" when the call returned), and the value returned
\* ------------------------------------------------------------------------
Return(S, v) == [store |-> S, error |-> "", value |-> v]

Throw(S, msg) == [store |-> S, error |-> msg, value |-> undefined]

\* ------------------------------------------------------------------------
\* generateTemplateId
\* ------------------------------------------------------------------------
UpperCase ==
  << "A", "B", "C", "D", "E", "F", "G", "H", "I", "J", "K", "L", "M",
     "N", "O", "P", "Q", "R", "S", "T", "U", "V", "W", "X", "Y", "Z" >>

LowerCase ==
  << "a", "b", "c", "d", "e", "f", "g", "h", "i", "j", "k", "l", "m",
     "n", "o", "p", "q", "r", "s", "t", "u", "v", "w", "x", "y", "z" >>

DigitChars == << "0", "1", "2", "3", "4", "5", "6", "7", "8", "9" >>

\* String.prototype.toLowerCase, one character
ToLowerChar(c) ==
  IF \E i \in 1..26 : UpperCase[i] = c
  THEN LowerCase[CHOOSE i \in 1..26 : UpperCase[i] = c]
  ELSE c

ToLowerCase(s) == [i \in 1..Len(s) |-> ToLowerChar(s[i])]

\* the character class [a-z0-9]
IsSlugChar(c) ==
  \/ \E i \in 1..26 : LowerCase[i] = c
  \/ \E i \in 1..10 : DigitChars[i] = c

\* .replace(/[^a-z0-9]+/g, '_'): every maximal run of other characters
\* becomes one underscore
RECURSIVE ReplaceRuns(_, _)
ReplaceRuns(s, inRun) ==
  IF s = <<>> THEN <<>>
  ELSE IF IsSlugChar(Head(s)) THEN <<Head(s)>> \o ReplaceRuns(Tail(s), FALSE)
  ELSE IF inRun THEN ReplaceRuns(Tail(s), TRUE)
  ELSE <<"_">> \o ReplaceRuns(Tail(s), TRUE)

\* .replace(/^_+|_+$/g, '')
RECURSIVE TrimLeft(_)
TrimLeft(s) ==
  IF s # <<>> /\ Head(s) = "_" THEN TrimLeft(Tail(s)) ELSE s

RECURSIVE TrimRight(_)
TrimRight(s) ==
  IF s # <<>> /\ s[Len(s)] = "_" THEN TrimRight(SubSeq(s, 1, Len(s) - 1))
  ELSE s

SlugBase(name) == TrimRight(TrimLeft(ReplaceRuns(ToLowerCase(name), FALSE)))

\* ${counter}: decimal digits of a positive integer
RECURSIVE NumberToString(_)
NumberToString(n) ==
  IF n < 10 THEN <<DigitChars[n + 1]>>
  ELSE NumberToString(n \div 10) \o <<DigitChars[(n % 10) + 1]>>

RECURSIVE FreeId(_, _, _, _)
FreeId(m, base, id, counter) ==
  IF MapHas(m, id)
  THEN FreeId(m, base, base \o <<"_">> \o NumberToString(counter), counter + 1)
  ELSE id

\* generateTemplateId without the loop over taken ids
generateTemplateId_NoLoop(S, name) == SlugBase(name)

generateTemplateId(S, name) == FreeId(S.templates, SlugBase(name), SlugBase(name), 1)

\* ------------------------------------------------------------------------
\* validateTemplate
\* ------------------------------------------------------------------------
\* validateTemplate that does not look at the description
validateTemplate_NoDescription(template) ==
  /\ Truthy(template.name)
  /\ Truthy(template.content)
  /\ Truthy(template.category)

validateTemplate(template) ==
  /\ Truthy(template.name)
  /\ Truthy(template.content)
  /\ Truthy(template.category)
  /\ Truthy(template.description)

\* ------------------------------------------------------------------------
\* addTemplate.  Date.now() is the parameter now; a timestamp 0 stands for
\* a timestamp that is not set.  The object stored is the caller's object:
\* it is not the object userTemplates holds under that id, if any.
\* ------------------------------------------------------------------------
addTemplate(S, template, now) ==
  IF ~validateTemplate(template) THEN Throw(S, "Invalid template format")
  ELSE
    LET id == IF ~Truthy(template.id)
              THEN generateTemplateId(S, template.name)
              ELSE template.id
        stored == [template EXCEPT
                     !.id = id,
                     !.createdAt = IF template.createdAt # 0
                                   THEN template.createdAt ELSE now,
                     !.updatedAt = now]
        cats == IF /\ stored.category \in DOMAIN S.categories
                   /\ ~Includes(S.categories[stored.category], id)
                THEN [S.categories EXCEPT ![stored.category] = Append(@, id)]
                ELSE S.categories
    IN Return([S EXCEPT !.templates = MapSet(@, id, stored),
                        !.categories = cats,
                        !.sameObject = @ \ {id}],
              id)

\* ------------------------------------------------------------------------
\* getTemplate: the template, or null
\* ------------------------------------------------------------------------
null == [isNull |-> TRUE]

getTemplate(S, templateId) ==
  IF MapHas(S.templates, templateId) THEN MapGet(S.templates, templateId)
  ELSE null

\* ------------------------------------------------------------------------
\* constructor: six empty categories, then the default templates
\* ------------------------------------------------------------------------
EmptyStore ==
  [templates |-> <<>>,
   categories |-> [c \in CategoryIds |-> <<>>],
   userTemplates |-> <<>>,
   sameObject |-> {},
   recentlyUsed |-> <<>>,
   favorites |-> {}]

RECURSIVE addAll(_, _, _)
addAll(S, list, now) ==
  IF list = <<>> THEN S
  ELSE addAll(addTemplate(S, Head(list), now).store, Tail(list), now)

\* the clock reading at construction
StartTime == 1

NewStore == addAll(EmptyStore, DefaultTemplates, StartTime)

\* ------------------------------------------------------------------------
\* trackTemplateUsage.  The object in templates is mutated in place; when
\* userTemplates holds the same object under the id, it shows the change.
\* ------------------------------------------------------------------------
RecentCap == 20

\* trackTemplateUsage that does not cut the list
trackTemplateUsage_NoCap(S, templateId, now) ==
  LET recent == <<templateId>> \o Filter(S.recentlyUsed, templateId)
      template == getTemplate(S, templateId)
      used == [template EXCEPT !.usageCount = @ + 1, !.lastUsed = now]
  IN IF template = null THEN [S EXCEPT !.recentlyUsed = recent]
     ELSE [S EXCEPT
             !.recentlyUsed = recent,
             !.templates = MapSet(@, templateId, used),
             !.userTemplates = IF templateId \in S.sameObject
                               THEN MapSet(@, templateId, used) ELSE @]

trackTemplateUsage(S, templateId, now) ==
  LET recent == Slice(<<templateId>> \o Filter(S.recentlyUsed, templateId),
                      RecentCap)
      template == getTemplate(S, templateId)
      used == [template EXCEPT !.usageCount = @ + 1, !.lastUsed = now]
  IN IF template = null THEN [S EXCEPT !.recentlyUsed = recent]
     ELSE [S EXCEPT
             !.recentlyUsed = recent,
             !.templates = MapSet(@, templateId, used),
             !.userTemplates = IF templateId \in S.sameObject
                               THEN MapSet(@, templateId, used) ELSE @]

\* ------------------------------------------------------------------------
\* applyTemplate.  variables is the caller's object: its own properties in
\* insertion order, each a pair <<key, value>>.
\* ------------------------------------------------------------------------
VarKeys(variables) == {variables[i][1] : i \in 1..Len(variables)}

VarValue(variables, k) ==
  variables[CHOOSE i \in 1..Len(variables) : variables[i][1] = k][2]

\* { prompt: originalPrompt, original_prompt: originalPrompt, ...variables }:
\* a key of variables that is prompt or original_prompt overwrites the value
\* and keeps the position, the other keys follow in their order
allVariables(originalPrompt, variables) ==
  LET implicit == << "prompt", "original_prompt" >>
      first == [i \in 1..2 |->
                  << implicit[i],
                     IF implicit[i] \in VarKeys(variables)
                     THEN VarValue(variables, implicit[i])
                     ELSE originalPrompt >>]
  IN first \o SelectSeq(variables, LAMBDA e : e[1] \notin {"prompt", "original_prompt"})

\* the replacement string of String.prototype.replace: $$ inserts a dollar
\* sign and $& inserts the matched text
RECURSIVE ExpandReplacement(_, _)
ExpandReplacement(replacement, matched) ==
  IF replacement = <<>> THEN <<>>
  ELSE (IF Head(replacement) = "$$" THEN <<"$">>
        ELSE IF Head(replacement) = "$&" THEN matched
        ELSE <<Head(replacement)>>)
       \o ExpandReplacement(Tail(replacement), matched)

\* content.replace(new RegExp('\\{key\\}', 'g'), replacement): every match
\* of the content, left to right; inserted text is not scanned again by the
\* same call
RECURSIVE ReplaceAll(_, _, _)
ReplaceAll(content, key, replacement) ==
  IF content = <<>> THEN <<>>
  ELSE IF Len(content) >= 3 /\ SubSeq(content, 1, 3) = << "{", key, "}" >>
  THEN ExpandReplacement(replacement, << "{", key, "}" >>)
       \o ReplaceAll(SubSeq(content, 4, Len(content)), key, replacement)
  ELSE <<Head(content)>> \o ReplaceAll(Tail(content), key, replacement)

\* value || '[key]'
ValueOrPlaceholder(key, value) ==
  IF Truthy(value) THEN value ELSE << "[", key, "]" >>

RECURSIVE ReplaceEach(_, _)
ReplaceEach(content, entries) ==
  IF entries = <<>> THEN content
  ELSE ReplaceEach(ReplaceAll(content, Head(entries)[1],
                              ValueOrPlaceholder(Head(entries)[1], Head(entries)[2])),
                   Tail(entries))

\* applyTemplate that tracks the usage before it looks the template up
applyTemplate_TrackFirst(S, templateId, originalPrompt, variables, now) ==
  LET template == getTemplate(S, templateId)
  IN IF template = null
     THEN Throw(trackTemplateUsage(S, templateId, now), "Template not found")
     ELSE Return(trackTemplateUsage(S, templateId, now),
                 ReplaceEach(template.content,
                             allVariables(originalPrompt, variables)))

applyTemplate(S, templateId, originalPrompt, variables, now) ==
  LET template == getTemplate(S, templateId)
  IN IF template = null THEN Throw(S, "Template not found")
     ELSE Return(trackTemplateUsage(S, templateId, now),
                 ReplaceEach(template.content,
                             allVariables(originalPrompt, variables)))

\* ------------------------------------------------------------------------
\* createUserTemplate.  templateData.name.toLowerCase() of a missing name is
\* a TypeError raised by generateTemplateId before anything is validated.
\* ------------------------------------------------------------------------
createUserTemplate(S, templateData, now) ==
  IF templateData.name = undefined THEN Throw(S, "TypeError")
  ELSE
    LET template == [templateData EXCEPT
                       !.id = generateTemplateId(S, templateData.name),
                       !.isUserCreated = TRUE,
                       !.category = IF Truthy(templateData.category)
                                    THEN templateData.category
                                    ELSE Str("general")]
        added == addTemplate(S, template, now)
        templateId == added.value
    IN IF added.error # "" THEN added
       ELSE Return([added.store EXCEPT
                      !.userTemplates =
                         MapSet(@, templateId, MapGet(added.store.templates, templateId)),
                      !.sameObject = @ \cup {templateId}],
                   templateId)

\* ------------------------------------------------------------------------
\* updateTemplate.  updates is a function from the names of the properties
\* it carries to their values.
\* ------------------------------------------------------------------------
Spread(template, updates) ==
  [f \in DOMAIN template |->
     IF f \in DOMAIN updates THEN updates[f] ELSE template[f]]

\* updateTemplate without the test of isUserCreated
updateTemplate_NoPermissionTest(S, templateId, updates, now) ==
  LET template == getTemplate(S, templateId)
      updatedTemplate == [Spread(template, updates) EXCEPT !.updatedAt = now]
  IN IF template = null THEN Throw(S, "Template not found")
     ELSE Return([S EXCEPT
                    !.templates = MapSet(@, templateId, updatedTemplate),
                    !.userTemplates = MapSet(@, templateId, updatedTemplate),
                    !.sameObject = @ \cup {templateId}],
                 undefined)

updateTemplate(S, templateId, updates, now) ==
  LET template == getTemplate(S, templateId)
      updatedTemplate == [Spread(template, updates) EXCEPT !.updatedAt = now]
  IN IF template = null THEN Throw(S, "Template not found")
     ELSE IF ~template.isUserCreated THEN Throw(S, "Cannot modify system templates")
     ELSE Return([S EXCEPT
                    !.templates = MapSet(@, templateId, updatedTemplate),
                    !.userTemplates = MapSet(@, templateId, updatedTemplate),
                    !.sameObject = @ \cup {templateId}],
                 undefined)

\* ------------------------------------------------------------------------
\* deleteTemplate
\* ------------------------------------------------------------------------
\* deleteTemplate that clears favorites and the recency list before it looks
\* the template up
deleteTemplate_CleanFirst(S, templateId) ==
  LET cleaned == [S EXCEPT !.favorites = @ \ {templateId},
                           !.recentlyUsed = Filter(@, templateId)]
      template == getTemplate(S, templateId)
  IN IF template = null THEN Return(cleaned, undefined)
     ELSE IF ~template.isUserCreated THEN Throw(S, "Cannot delete system templates")
     ELSE Return([cleaned EXCEPT
                    !.templates = MapDelete(@, templateId),
                    !.userTemplates = MapDelete(@, templateId),
                    !.sameObject = @ \ {templateId},
                    !.categories =
                       IF template.category \in DOMAIN S.categories
                       THEN [@ EXCEPT ![template.category] = Filter(@, templateId)]
                       ELSE @],
                 undefined)

deleteTemplate(S, templateId) ==
  LET template == getTemplate(S, templateId)
  IN IF template = null THEN Return(S, undefined)
     ELSE IF ~template.isUserCreated THEN Throw(S, "Cannot delete system templates")
     ELSE Return([S EXCEPT
                    !.templates = MapDelete(@, templateId),
                    !.userTemplates = MapDelete(@, templateId),
                    !.sameObject = @ \ {templateId},
                    !.favorites = @ \ {templateId},
                    !.categories =
                       IF template.category \in DOMAIN S.categories
                       THEN [@ EXCEPT ![template.category] = Filter(@, templateId)]
                       ELSE @,
                    !.recentlyUsed = Filter(@, templateId)],
                 undefined)

\* ------------------------------------------------------------------------
\* toggleFavorite
\* ------------------------------------------------------------------------
\* toggleFavorite without the delete branch
toggleFavorite_AddOnly(S, templateId) ==
  Return([S EXCEPT !.favorites = @ \cup {templateId}], undefined)

toggleFavorite(S, templateId) ==
  Return([S EXCEPT !.favorites = IF templateId \in S.favorites
                                 THEN @ \ {templateId}
                                 ELSE @ \cup {templateId}],
         undefined)

\* ------------------------------------------------------------------------
\* exportTemplates: the template objects in the Map's order, the category
\* entries and the favorites (exportDate and version are not read back)
\* ------------------------------------------------------------------------
exportTemplates(S, includeUserOnly) ==
  [isArray |-> TRUE,
   templates |-> IF includeUserOnly THEN MapValues(S.userTemplates)
                 ELSE MapValues(S.templates),
   categories |-> S.categories,
   favorites |-> S.favorites]

\* ------------------------------------------------------------------------
\* importTemplates.  data.isArray tells whether data.templates is an array,
\* data.templates lists its template objects; data.favorites is the set of
\* the ids listed (empty when the property is missing).
\* ------------------------------------------------------------------------
importOne(S, template, now) ==
  IF ~validateTemplate(template) THEN S
  ELSE LET added == addTemplate(S, template, now)
           id == added.value
       IN IF template.isUserCreated
          THEN [added.store EXCEPT
                  !.userTemplates = MapSet(@, id, MapGet(added.store.templates, id)),
                  !.sameObject = @ \cup {id}]
          ELSE added.store

\* importTemplates that gives up at the first invalid entry
RECURSIVE importEach_StopAtInvalid(_, _, _)
importEach_StopAtInvalid(S, list, now) ==
  IF list = <<>> \/ ~validateTemplate(Head(list)) THEN S
  ELSE importEach_StopAtInvalid(importOne(S, Head(list), now), Tail(list), now)

RECURSIVE importEach(_, _, _)
importEach(S, list, now) ==
  IF list = <<>> THEN S
  ELSE importEach(importOne(S, Head(list), now), Tail(list), now)

importTemplates(S, data, now) ==
  IF ~data.isArray THEN Throw(S, "Invalid import data format")
  ELSE LET S1 == importEach(S, data.templates, now)
       IN Return([S1 EXCEPT
                    !.favorites = @ \cup {id \in data.favorites : MapHas(S1.templates, id)}],
                 undefined)

\* ------------------------------------------------------------------------
\* PromptAnalyzer (src/src/analyzer.js).
\*
\* A prompt text is a string and is inspected character by character:
\* SubSeq(text, i, i) is its i-th character.  The grave accent is written ~
\* here too.  A regular expression with the flag i is matched against the
\* lower-cased text; only the ASCII letters have two cases in the texts
\* analysed.  Numbers that are no integers (the readability score, the
\* score before Math.round) are exact fractions [num, den] with den > 0
\* where the program computes with IEEE doubles.
\* ------------------------------------------------------------------------
\* the character classes of the regular expressions: [a-z], [A-Z], \d, \w,
\* \s, the characters that . does not match, [aeiouy], [.!?]
CharClass ==
  [letter |-> { "a", "b", "c", "d", "e", "f", "g", "h", "i", "j", "k", "l",
               "m", "n", "o", "p", "q", "r", "s", "t", "u", "v", "w", "x",
               "y", "z" },
   capital |-> { "A", "B", "C", "D", "E", "F", "G", "H", "I", "J", "K", "L",
                "M", "N", "O", "P", "Q", "R", "S", "T", "U", "V", "W", "X",
                "Y", "Z" },
   digit |-> { "0", "1", "2", "3", "4", "5", "6", "7", "8", "9" },
   word |-> { "a", "b", "c", "d", "e", "f", "g", "h", "i", "j", "k", "l",
             "m", "n", "o", "p", "q", "r", "s", "t", "u", "v", "w", "x",
             "y", "z", "A", "B", "C", "D", "E", "F", "G", "H", "I", "J",
             "K", "L", "M", "N", "O", "P", "Q", "R", "S", "T", "U", "V",
             "W", "X", "Y", "Z", "0", "1", "2", "3", "4", "5", "6", "7",
             "8", "9", "_" },
   space |-> {" ", "\n", "\t", "\r", "\f"},
   lineTerminator |-> {"\n", "\r"},
   vowel |-> {"a", "e", "i", "o", "u", "y"},
   sentenceEnd |-> {".", "!", "?"}]

\* the i-th character, "" outside the text
Char(text, i) == IF i >= 1 /\ i <= Len(text) THEN SubSeq(text, i, i) ELSE ""

\* String.prototype.toLowerCase
RECURSIVE toLowerCase(_)
toLowerCase(text) ==
  IF Len(text) = 0 THEN ""
  ELSE IF Len(text) = 1
  THEN IF text \in CharClass.capital
       THEN LET upper == "ABCDEFGHIJKLMNOPQRSTUVWXYZ"
                lower == "abcdefghijklmnopqrstuvwxyz"
                k == CHOOSE k \in 1..26 : SubSeq(upper, k, k) = text
            IN SubSeq(lower, k, k)
       ELSE text
  ELSE LET half == Len(text) \div 2
       IN toLowerCase(SubSeq(text, 1, half))
          \o toLowerCase(SubSeq(text, half + 1, Len(text)))

\* the literal w stands at position i
MatchAt(text, i, w) ==
  /\ i >= 1
  /\ i + Len(w) - 1 <= Len(text)
  /\ SubSeq(text, i, i + Len(w) - 1) = w

\* String.prototype.includes for one of several literals; also a regular
\* expression that is an alternation of literals
IncludesAny(text, words) ==
  \E i \in 1..Len(text) : \E w \in words : MatchAt(text, i, w)

\* ^(w1|w2|...)
StartsWithAny(text, words) == \E w \in words : MatchAt(text, 1, w)

\* \b between the characters i - 1 and i
WordBoundary(text, i) == (Char(text, i - 1) \in CharClass.word) # (Char(text, i) \in CharClass.word)

\* the end of a match of \b(w1|w2|...)\b that starts at i, 0 if there is none
WholeWordEnd(text, i, words) ==
  IF /\ WordBoundary(text, i)
     /\ \E w \in words : MatchAt(text, i, w) /\ WordBoundary(text, i + Len(w))
  THEN LET w == CHOOSE w \in words :
                  MatchAt(text, i, w) /\ WordBoundary(text, i + Len(w))
       IN i + Len(w) - 1
  ELSE 0

\* the places where /\b(w1|w2|...)\b/g matches; the words are runs of word
\* characters, so two matches never overlap
WholeWordMatches(text, words) ==
  { i \in 1..Len(text) : WholeWordEnd(text, i, words) # 0 }

\* the first position at or after i that is not in the class, Len + 1 if none
RECURSIVE SkipClass(_, _, _)
SkipClass(text, i, class) ==
  IF Char(text, i) \in class THEN SkipClass(text, i + 1, class) ELSE i

\* the last position at or before i that is not in the class, 0 if none
RECURSIVE SkipClassBack(_, _, _)
SkipClassBack(text, i, class) ==
  IF Char(text, i) \in class THEN SkipClassBack(text, i - 1, class) ELSE i

\* the places where a maximal run of characters of the class starts
RunStarts(text, class) ==
  { i \in 1..Len(text) : Char(text, i) \in class /\ Char(text, i - 1) \notin class }

\* ^(?!.*X).+$ : the text is one non-empty line in which X does not match
OneLineWithout(text, found) ==
  /\ Len(text) > 0
  /\ \A i \in 1..Len(text) : Char(text, i) \notin CharClass.lineTerminator
  /\ ~found

\* patterns.tooVague  /(what|how|why|tell me about|explain)\s*$/i
patterns_tooVague(text) ==
  LET lower == toLowerCase(text)
  IN \E i \in 1..Len(text) :
       \E w \in {"what", "how", "why", "tell me about", "explain"} :
         /\ MatchAt(lower, i, w)
         /\ SkipClass(text, i + Len(w), CharClass.space) = Len(text) + 1

\* patterns.noContext
\* /^(?!.*\b(context|background|scenario|situation)\b).+$/i
patterns_noContext(text) ==
  OneLineWithout(text,
    WholeWordMatches(toLowerCase(text),
                     {"context", "background", "scenario", "situation"}) # {})

\* patterns.needsSpecificity
\* /(general|basic|simple|quick|brief)\s+(help|info|explanation)/i
patterns_needsSpecificity(text) ==
  LET lower == toLowerCase(text)
  IN \E i \in 1..Len(text) :
       \E w \in {"general", "basic", "simple", "quick", "brief"} :
         /\ MatchAt(lower, i, w)
         /\ Char(text, i + Len(w)) \in CharClass.space
         /\ \E v \in {"help", "info", "explanation"} :
              MatchAt(lower, SkipClass(text, i + Len(w), CharClass.space), v)

\* patterns.needsRole
\* /^(?!.*(act as|you are|assume you|pretend|role of)).+$/i
patterns_needsRole(text) ==
  OneLineWithout(text,
    IncludesAny(toLowerCase(text),
                {"act as", "you are", "assume you", "pretend", "role of"}))

\* patterns.needsFormat
\* /^(?!.*(format|structure|organize|list|table|bullet)).+$/i
patterns_needsFormat(text) ==
  OneLineWithout(text,
    IncludesAny(toLowerCase(text),
                {"format", "structure", "organize", "list", "table", "bullet"}))

\* patterns.needsExamples  /(example|sample|instance|demonstrate)/i
patterns_needsExamples(text) ==
  IncludesAny(toLowerCase(text), {"example", "sample", "instance", "demonstrate"})

\* patterns.question
patterns_question(text) ==
  StartsWithAny(toLowerCase(text),
    {"what", "how", "why", "when", "where", "who", "which",
     "can you", "could you", "would you"})

\* patterns.instruction
patterns_instruction(text) ==
  StartsWithAny(toLowerCase(text),
    {"write", "create", "generate", "make", "build", "design", "develop"})

\* patterns.analysis
patterns_analysis(text) ==
  StartsWithAny(toLowerCase(text),
    {"analyze", "compare", "evaluate", "assess", "review", "examine"})

\* patterns.explanation
patterns_explanation(text) ==
  StartsWithAny(toLowerCase(text), {"explain", "describe", "tell me", "clarify"})

\* patterns.hasCode: a fence, anything, a fence; or an accent, characters
\* that are no accent (one at least), an accent
patterns_hasCode(text) ==
  \/ \E i \in 1..Len(text) :
       /\ MatchAt(text, i, "~~~")
       /\ \E j \in (i + 3)..Len(text) : MatchAt(text, j, "~~~")
  \/ \E i \in 1..Len(text) :
       /\ Char(text, i) = "~"
       /\ Char(text, i + 1) \notin {"~", ""}
       /\ \E j \in (i + 2)..Len(text) : Char(text, j) = "~"

\* patterns.hasData  /\b\d+%|\$\d+|\d+\s*(users|customers|records|items)/i
patterns_hasData(text) ==
  LET lower == toLowerCase(text)
  IN \/ \E i \in 1..Len(text) :
          /\ Char(text, i) \in CharClass.digit
          /\ WordBoundary(text, i)
          /\ Char(text, SkipClass(text, i, CharClass.digit)) = "%"
     \/ \E i \in 1..Len(text) :
          Char(text, i) = "$" /\ Char(text, i + 1) \in CharClass.digit
     \/ \E i \in 1..Len(text) :
          /\ Char(text, i) \in CharClass.digit
          /\ \E w \in {"users", "customers", "records", "items"} :
               MatchAt(lower, SkipClass(text, i + 1, CharClass.space), w)

\* ------------------------------------------------------------------------
\* calculateMetrics and the three scores it calls for
\* ------------------------------------------------------------------------
\* a sequential loop over first..last that carries a value from one pass
\* to the next; the recursion halves the range
ForEach(first, last, value, Body(_, _)) ==
  LET RECURSIVE Loop(_, _, _)
      Loop(from, to, carried) ==
        IF from > to THEN carried
        ELSE IF from = to THEN Body(carried, from)
        ELSE LET mid == (from + to) \div 2
                 firstHalf == Loop(from, mid, carried)
             IN \* the comparison has the first half computed before the
                \* second half starts
                IF firstHalf = firstHalf THEN Loop(mid + 1, to, firstHalf)
                ELSE carried
  IN Loop(first, last, value)

Max(a, b) == IF a >= b THEN a ELSE b

Min(a, b) == IF a <= b THEN a ELSE b

\* countSyllables: the words are the matches of /\b[a-z]+\b/g in the
\* lower-cased text; syllables is one running total, and both the
\* subtraction for a final e and the floor at 1 act on that total
countSyllables(text) ==
  LET lower == toLowerCase(text)
      starts == { i \in RunStarts(lower, CharClass.letter) :
                    /\ WordBoundary(lower, i)
                    /\ WordBoundary(lower, SkipClass(lower, i, CharClass.letter)) }
      Body(syllables, i) ==
        IF i \notin starts THEN syllables
        ELSE LET word == SubSeq(lower, i, SkipClass(lower, i, CharClass.letter) - 1)
                 vowelGroups == Cardinality(RunStarts(word, CharClass.vowel))
                 added == syllables + (IF vowelGroups > 0 THEN vowelGroups ELSE 1)
                 adjusted == IF Char(word, Len(word)) = "e" THEN added - 1 ELSE added
             IN IF adjusted < 1 THEN 1 ELSE adjusted
  IN ForEach(1, Len(lower), 0, Body)

\* calculateReadability.  text.split(/\s+/).length is the number of maximal
\* runs of white space plus one, and likewise for /[.!?]+/.  The result is
\* the fraction num/den of
\*   206.835 - 1.015 * (words / sentences) - 84.6 * (syllables / words)
\* over den = 200 * words * sentences (206.835 = 41367/200, 1.015 = 203/200,
\* 84.6 = 16920/200), clamped to 0..100.
calculateReadability(text) ==
  LET words == Cardinality(RunStarts(text, CharClass.space)) + 1
      sentences == Cardinality(RunStarts(text, CharClass.sentenceEnd)) + 1
      syllables == countSyllables(text)
      num == 41367 * words * sentences - 203 * words * words
             - 16920 * syllables * sentences
      den == 200 * words * sentences
  IN IF words = 0 \/ sentences = 0 THEN [num |-> 0, den |-> 1]
     ELSE IF num < 0 THEN [num |-> 0, den |-> 1]
     ELSE IF num > 100 * den THEN [num |-> 100, den |-> 1]
     ELSE [num |-> num, den |-> den]

calculateComplexity(text) ==
  LET lower == toLowerCase(text)
      technicalWords ==
        Cardinality(WholeWordMatches(lower,
          {"algorithm", "implement", "optimize", "analyze", "framework", "architecture"}))
      requirements ==
        Cardinality(WholeWordMatches(lower,
          {"and", "also", "additionally", "furthermore", "moreover"}))
      conditionals ==
        Cardinality(WholeWordMatches(lower,
          {"if", "when", "unless", "provided", "given"}))
      score == technicalWords * 10
               + (IF patterns_hasCode(text) THEN 20 ELSE 0)
               + requirements * 5
               + conditionals * 3
  IN Min(100, score)

calculateSpecificity(text) ==
  LET lower == toLowerCase(text)
      \* /\b\d+\b/g
      numbers ==
        Cardinality({ i \in RunStarts(text, CharClass.digit) :
                        /\ WordBoundary(text, i)
                        /\ WordBoundary(text, SkipClass(text, i, CharClass.digit)) })
      specificTerms ==
        Cardinality(WholeWordMatches(lower,
          {"exactly", "precisely", "specifically", "particular", "detailed"}))
      score == numbers * 5
               + specificTerms * 10
               + (IF patterns_needsExamples(text) THEN 15 ELSE 0)
               + (IF ~patterns_needsRole(text) THEN 10 ELSE 0)
               + (IF ~patterns_needsFormat(text) THEN 10 ELSE 0)
  IN Min(100, score)

\* calculateMetrics.  words: the maximal runs of characters that are no
\* white space.  sentences: the pieces between runs of [.!?] that hold a
\* character that is no white space.  paragraphs: the pieces between
\* matches of /\n\s*\n/, that is between runs of white space with two line
\* feeds, that hold a character that is no white space.
calculateMetrics(text) ==
  LET inWord == { i \in 1..Len(text) : Char(text, i) \notin CharClass.space }
      words == { i \in inWord : (i - 1) \notin inWord }
      sentences ==
        { i \in inWord :
            /\ Char(text, i) \notin CharClass.sentenceEnd
            /\ LET before == SkipClassBack(text, i - 1, CharClass.space)
               IN before = 0 \/ Char(text, before) \in CharClass.sentenceEnd }
      paragraphs ==
        { i \in words :
            LET before == SkipClassBack(text, i - 1, CharClass.space)
            IN \/ before = 0
               \/ Cardinality({ k \in (before + 1)..(i - 1) : Char(text, k) = "\n" }) >= 2 }
  IN [characterCount |-> Len(text),
      wordCount |-> Cardinality(words),
      sentenceCount |-> Cardinality(sentences),
      paragraphCount |-> Cardinality(paragraphs),
      averageWordsPerSentence |->
        IF Cardinality(sentences) > 0
        THEN [num |-> Cardinality(words), den |-> Cardinality(sentences)]
        ELSE [num |-> 0, den |-> 1],
      readabilityScore |-> calculateReadability(text),
      complexityScore |-> calculateComplexity(text),
      specificityScore |-> calculateSpecificity(text)]

\* ------------------------------------------------------------------------
\* identifyIssues
\* ------------------------------------------------------------------------
rules == [minLength |-> 15, maxLength |-> 2000, optimalLength |-> << 50, 500 >>]

Issue(type, severity, message, suggestion) ==
  [type |-> type, severity |-> severity, message |-> message,
   suggestion |-> suggestion]

identifyIssues(text) ==
  (IF Len(text) < rules.minLength
   THEN << Issue("length", "high",
                 "Prompt is too short and may lack necessary detail",
                 "Add more context and specific requirements") >>
   ELSE IF Len(text) > rules.maxLength
   THEN << Issue("length", "medium",
                 "Prompt is very long and may be overwhelming",
                 "Consider breaking into smaller, focused requests") >>
   ELSE <<>>)
  \o (IF patterns_tooVague(text)
      THEN << Issue("vagueness", "high",
                    "Prompt is too vague and generic",
                    "Be more specific about what you want to achieve") >>
      ELSE <<>>)
  \o (IF patterns_noContext(text) /\ Len(text) > 30
      THEN << Issue("context", "medium",
                    "Prompt lacks background context",
                    "Provide relevant background information or constraints") >>
      ELSE <<>>)
  \o (IF patterns_needsRole(text) /\ Len(text) > 50
      THEN << Issue("role", "low",
                    "Could benefit from defining AI role or expertise",
                    "Start with \"Act as a [role]\" or \"You are an expert in [field]\"") >>
      ELSE <<>>)
  \o (IF patterns_needsFormat(text) /\ Len(text) > 40
      THEN << Issue("format", "low",
                    "Output format not specified",
                    "Specify desired format (list, table, paragraphs, etc.)") >>
      ELSE <<>>)
  \o (IF patterns_needsSpecificity(text)
      THEN << Issue("specificity", "medium",
                    "Request is too general",
                    "Replace general terms with specific requirements") >>
      ELSE <<>>)

\* ------------------------------------------------------------------------
\* categorizePrompt
\* ------------------------------------------------------------------------
categorizePrompt_DomainFirst(text) ==
  IF patterns_hasCode(text) THEN "technical"
  ELSE IF patterns_hasData(text) THEN "data"
  ELSE IF patterns_question(text) THEN "question"
  ELSE IF patterns_instruction(text) THEN "instruction"
  ELSE IF patterns_analysis(text) THEN "analysis"
  ELSE IF patterns_explanation(text) THEN "explanation"
  ELSE "general"

categorizePrompt(text) ==
  IF patterns_question(text) THEN "question"
  ELSE IF patterns_instruction(text) THEN "instruction"
  ELSE IF patterns_analysis(text) THEN "analysis"
  ELSE IF patterns_explanation(text) THEN "explanation"
  ELSE IF patterns_hasCode(text) THEN "technical"
  ELSE IF patterns_hasData(text) THEN "data"
  ELSE "general"

\* ------------------------------------------------------------------------
\* generateSuggestions of the analyzer (the example text of a suggestion
\* and the template flag of the template entry, which nothing reads back,
\* are left out)
\* ------------------------------------------------------------------------
getSeverityPriority(severity) ==
  CASE severity = "high" -> 90
    [] severity = "medium" -> 60
    [] severity = "low" -> 30
    [] OTHER -> 10

Suggestion(id, type, category, priority, title, description) ==
  [id |-> id, type |-> type, category |-> category, priority |-> priority,
   title |-> title, description |-> description]

getCategorySpecificSuggestions(category) ==
  CASE category = "question" ->
         << Suggestion("question_context", "enhancement", "context", 70,
                       "Add background context",
                       "Provide relevant background information to get better answers") >>
    [] category = "instruction" ->
         << Suggestion("instruction_requirements", "enhancement", "requirements", 80,
                       "Specify detailed requirements",
                       "Include specific requirements, constraints, and success criteria") >>
    [] category = "technical" ->
         << Suggestion("technical_environment", "enhancement", "technical", 75,
                       "Specify technical environment",
                       "Include programming language, framework, or platform details") >>
    [] OTHER -> <<>>

\* getTemplateSuggestions of the analyzer: one fixed entry
Analyzer_getTemplateSuggestions ==
  << Suggestion("template_structured", "template", "structure", 50,
                "Use structured prompt template",
                "Apply a proven template structure for better results") >>

\* Array.prototype.sort with a comparator: a stable sort.  Before(a, b)
\* says that the comparator puts a strictly before b.
SortBy(seq, Before(_, _)) ==
  LET place(i) ==
        1 + Cardinality({ j \in 1..Len(seq) :
                            \/ Before(seq[j], seq[i])
                            \/ (~Before(seq[i], seq[j]) /\ j < i) })
  IN [r \in 1..Len(seq) |-> seq[CHOOSE i \in 1..Len(seq) : place(i) = r]]

Analyzer_generateSuggestions(text) ==
  LET issues == identifyIssues(text)
      category == categorizePrompt(text)
      fixes == [k \in 1..Len(issues) |->
                  Suggestion("fix_" \o issues[k].type, "improvement", issues[k].type,
                             getSeverityPriority(issues[k].severity),
                             issues[k].message, issues[k].suggestion)]
  IN SortBy(fixes \o getCategorySpecificSuggestions(category)
                  \o Analyzer_getTemplateSuggestions,
            LAMBDA a, b : b.priority - a.priority < 0)

\* ------------------------------------------------------------------------
\* calculateScore
\* ------------------------------------------------------------------------
MathRound_Floor(num, den) == num \div den

\* Math.round of the fraction num/den, den > 0: the integer next to it,
\* the upper one of two that are equally near
MathRound(num, den) ==
  LET q == num \div den
      r == num % den
  IN IF 2 * r >= den THEN q + 1 ELSE q

\* calculateScore without the last clamp to 0..100
calculateScore_NoClamp(analysis) ==
  LET metrics == analysis.metrics
      issues == analysis.issues
      wordCount == metrics.wordCount
      lengthScored ==
        IF wordCount >= rules.optimalLength[1] /\ wordCount <= rules.optimalLength[2] THEN 50 + 20
        ELSE IF wordCount < rules.optimalLength[1] THEN 50 - 15
        ELSE 50 - 10
      Body(score, k) ==
        CASE issues[k].severity = "high" -> score - 15
          [] issues[k].severity = "medium" -> score - 10
          [] issues[k].severity = "low" -> score - 5
          [] OTHER -> score
      penalized == ForEach(1, Len(issues), lengthScored, Body)
      readability == metrics.readabilityScore
      num == (10 * penalized + 3 * metrics.specificityScore) * readability.den
             + readability.num
      den == 10 * readability.den
  IN MathRound(num, den)

\* calculateScore reads analysis.metrics and analysis.issues.  The score
\* before Math.round is the fraction
\*   score + specificityScore * 0.3 + readabilityScore * 0.1
\* over ten times the denominator of readabilityScore.
calculateScore(analysis) ==
  LET metrics == analysis.metrics
      issues == analysis.issues
      wordCount == metrics.wordCount
      lengthScored ==
        IF wordCount >= rules.optimalLength[1] /\ wordCount <= rules.optimalLength[2] THEN 50 + 20
        ELSE IF wordCount < rules.optimalLength[1] THEN 50 - 15
        ELSE 50 - 10
      Body(score, k) ==
        CASE issues[k].severity = "high" -> score - 15
          [] issues[k].severity = "medium" -> score - 10
          [] issues[k].severity = "low" -> score - 5
          [] OTHER -> score
      penalized == ForEach(1, Len(issues), lengthScored, Body)
      readability == metrics.readabilityScore
      num == (10 * penalized + 3 * metrics.specificityScore) * readability.den
             + readability.num
      den == 10 * readability.den
  IN Max(0, Min(100, MathRound(num, den)))

\* ------------------------------------------------------------------------
\* analyze.  The argument is a JavaScript value [type, value]: type is what
\* typeof answers, value spells the value.  self is the analyzer object.
\* The outcome names the error raised ("" for none), the value returned
\* and the objects the registered callback was called with, in order.
\* ------------------------------------------------------------------------
JsString(s) == [type |-> "string", value |-> s]

\* !text
Falsy(v) ==
  \/ v.type = "undefined"
  \/ (v.type = "object" /\ v.value = "null")
  \/ (v.type = "string" /\ v.value = "")
  \/ (v.type = "number" /\ v.value \in {"0", "NaN"})
  \/ (v.type = "boolean" /\ v.value = "false")

\* {}
EmptyObject == [p \in {} |-> p]

\* an empty analysis that keeps the base score
createEmptyAnalysis_BaseScore(timestamp) ==
  [originalText |-> "",
   context |-> EmptyObject,
   timestamp |-> timestamp,
   metrics |-> EmptyObject,
   issues |-> <<>>,
   suggestions |-> <<>>,
   score |-> 50,
   category |-> "general"]

createEmptyAnalysis(timestamp) ==
  [originalText |-> "",
   context |-> EmptyObject,
   timestamp |-> timestamp,
   metrics |-> EmptyObject,
   issues |-> <<>>,
   suggestions |-> <<>>,
   score |-> 0,
   category |-> "general"]

\* analyze that calls back before it has the score
analyze_CallbackBeforeScore(self, text, context, timestamp) ==
  IF Falsy(text) \/ text.type # "string"
  THEN [error |-> "", value |-> createEmptyAnalysis(timestamp), called |-> <<>>]
  ELSE LET draft == [originalText |-> text.value,
                     context |-> context,
                     timestamp |-> timestamp,
                     metrics |-> calculateMetrics(text.value),
                     issues |-> identifyIssues(text.value),
                     suggestions |-> Analyzer_generateSuggestions(text.value),
                     score |-> 0,
                     category |-> categorizePrompt(text.value)]
           result == [draft EXCEPT !.score = calculateScore(draft)]
       IN [error |-> "", value |-> result,
           called |-> IF self.onAnalysisComplete # "null" THEN << draft >> ELSE <<>>]

analyze(self, text, context, timestamp) ==
  IF Falsy(text) \/ text.type # "string"
  THEN [error |-> "", value |-> createEmptyAnalysis(timestamp), called |-> <<>>]
  ELSE LET draft == [originalText |-> text.value,
                     context |-> context,
                     timestamp |-> timestamp,
                     metrics |-> calculateMetrics(text.value),
                     issues |-> identifyIssues(text.value),
                     suggestions |-> Analyzer_generateSuggestions(text.value),
                     score |-> 0,
                     category |-> categorizePrompt(text.value)]
           result == [draft EXCEPT !.score = calculateScore(draft)]
       IN [error |-> "", value |-> result,
           called |-> IF self.onAnalysisComplete # "null" THEN << result >> ELSE <<>>]

\* ------------------------------------------------------------------------
\* getTemplatesByCategory, getTemplateSuggestions of the TemplateManager.
\* analysis is an object as analyze returns it: its category and the type
\* and severity of its issues are plain strings.
\* ------------------------------------------------------------------------
getTemplatesByCategory(S, categoryId) ==
  IF categoryId \notin DOMAIN S.categories THEN <<>>
  ELSE LET ids == SelectSeq(S.categories[categoryId],
                            LAMBDA id : MapHas(S.templates, id))
       IN [k \in 1..Len(ids) |-> MapGet(S.templates, ids[k])]

getRelevanceReasons(S, template, analysis) ==
  LET addressed == SelectSeq(analysis.issues,
                             LAMBDA issue : issue.type \in template.addresses)
  IN [k \in 1..Len(addressed) |-> "Addresses " \o addressed[k].type \o " issue"]
     \o (IF template.category = Str(analysis.category)
         THEN << "Matches " \o analysis.category \o " category" >> ELSE <<>>)
     \o (IF Includes(S.recentlyUsed, template.id) THEN << "Recently used" >> ELSE <<>>)
     \o (IF template.id \in S.favorites THEN << "Favorite template" >> ELSE <<>>)

\* the entries getTemplateSuggestions pushes, in the order of the Map
ScoredTemplates(S, analysis) ==
  LET values == MapValues(S.templates)
      scoreOf(template) ==
        LET Body(score, k) ==
              IF analysis.issues[k].type \in template.addresses
              THEN score + (IF analysis.issues[k].severity = "high" THEN 30
                            ELSE IF analysis.issues[k].severity = "medium" THEN 20
                            ELSE 10)
              ELSE score
        IN ForEach(1, Len(analysis.issues), 0, Body)
           + (IF template.category = Str(analysis.category) THEN 25 ELSE 0)
           + template.priority    \* || 0: every template here carries a number
           + (IF Includes(S.recentlyUsed, template.id) THEN 10 ELSE 0)
           + (IF template.id \in S.favorites THEN 15 ELSE 0)
      scored == [k \in 1..Len(values) |->
                   [template |-> values[k],
                    score |-> scoreOf(values[k]),
                    relevanceReasons |-> getRelevanceReasons(S, values[k], analysis)]]
  IN SelectSeq(scored, LAMBDA entry : entry.score > 20)

\* getTemplateSuggestions without the final sort
getTemplateSuggestions_NoSort(S, analysis) == ScoredTemplates(S, analysis)

getTemplateSuggestions(S, analysis) ==
  SortBy(ScoredTemplates(S, analysis), LAMBDA a, b : b.score - a.score < 0)

\* ------------------------------------------------------------------------
\* PromptEnhancer (src/unnamed/part_002).
\*
\* self is the enhancer object [templates, onSuggestionsReady].  The
\* templates it holds come from the host: an object whose property
\* categories, if there, maps a category name to an array of template
\* objects.  The texts of a suggestion (id, title, description,
\* previewText) are strings as sequences of atoms, like the texts of a
\* template; a text computed from the prompt is one atom.  The prompts of
\* the exploration hold no brace and no $ pattern, so that packing the
\* prompt into one atom changes nothing for the replace calls of
\* applyTemplateToText.
\* ------------------------------------------------------------------------
strategies ==
  [CONTEXT_ADDITION |-> "context_addition",
   ROLE_DEFINITION |-> "role_definition",
   FORMAT_SPECIFICATION |-> "format_specification",
   SPECIFICITY_BOOST |-> "specificity_boost",
   STRUCTURE_IMPROVEMENT |-> "structure_improvement",
   TEMPLATE_APPLICATION |-> "template_application"]

\* { ...a, ...b }
ObjectSpread(a, b) ==
  [p \in DOMAIN a \cup DOMAIN b |-> IF p \in DOMAIN b THEN b[p] ELSE a[p]]

\* severityMap[issue.severity] || 30
getIssuePriority(issue) ==
  CASE issue.severity = "high" -> 90
    [] issue.severity = "medium" -> 60
    [] OTHER -> 30

\* text.split(/[.!?]+/).filter(s => s.trim()): the pieces between runs of
\* [.!?] that hold a character that is no white space, in order
SplitSentences(text) ==
  LET ends == { i \in 0..(Len(text) + 1) :
                  i = 0 \/ i = Len(text) + 1 \/ Char(text, i) \in CharClass.sentenceEnd }
      starts == { i \in 1..Len(text) : (i - 1) \in ends /\ i \notin ends }
      stop(i) == CHOOSE e \in ends : e > i /\ \A f \in ends : f > i => e <= f
      pieces == { i \in starts :
                    \E k \in i..(stop(i) - 1) : Char(text, k) \notin CharClass.space }
      rank(i) == 1 + Cardinality({ j \in pieces : j < i })
  IN [r \in 1..Cardinality(pieces) |->
        LET i == CHOOSE i \in pieces : rank(i) = r
        IN SubSeq(text, i, stop(i) - 1)]

\* Array.prototype.join
RECURSIVE Join(_, _)
Join(pieces, separator) ==
  IF Len(pieces) = 0 THEN ""
  ELSE IF Len(pieces) = 1 THEN pieces[1]
  ELSE pieces[1] \o separator \o Join(Tail(pieces), separator)

\* Array.prototype.slice(first, last) with 0-based indices, last excluded
ArraySlice(seq, first, last) ==
  IF first >= Min(last, Len(seq)) THEN <<>>
  ELSE SubSeq(seq, first + 1, Min(last, Len(seq)))

generateLengthFix(text, issue) ==
  IF Len(text) < 15
  THEN "I need help with " \o text
       \o ". Could you please provide detailed guidance including background information, step-by-step instructions, and practical examples?"
  ELSE IF Len(text) > 2000
  THEN Join(ArraySlice(SplitSentences(text), 0, 3), ". ")
       \o ". Please provide a comprehensive response."
  ELSE text

\* text.replace(/\b(w1|w2|...)\b/gi, replacement), the replacement holding
\* no $ pattern
ReplaceWholeWords(text, words, replacement) ==
  LET lower == toLowerCase(text)
      Body(done, i) ==
        IF i < done.next THEN done
        ELSE IF WholeWordEnd(lower, i, words) # 0
        THEN [out |-> done.out \o replacement,
              next |-> WholeWordEnd(lower, i, words) + 1]
        ELSE [out |-> done.out \o Char(text, i), next |-> i + 1]
  IN ForEach(1, Len(text), [out |-> "", next |-> 1], Body).out

generateSpecificityFix(text) ==
  ReplaceWholeWords(text, {"help", "explain", "tell me"}, "provide detailed guidance on")
  \o " Please include specific examples, step-by-step instructions, and practical applications."

generateContextAddition ==
  "Background: I'm working on a project where [provide your specific situation]. "

inferRole(text) ==
  LET lowerText == toLowerCase(text)
  IN IF IncludesAny(lowerText, {"code", "program", "develop"})
     THEN "an experienced software developer"
     ELSE IF IncludesAny(lowerText, {"design", "ui", "ux"})
     THEN "a professional designer"
     ELSE IF IncludesAny(lowerText, {"business", "strategy", "market"})
     THEN "a business consultant"
     ELSE IF IncludesAny(lowerText, {"write", "content", "blog"})
     THEN "a professional writer"
     ELSE IF IncludesAny(lowerText, {"analyze", "data", "research"})
     THEN "a data analyst"
     ELSE "an expert in the relevant field"

generateRoleDefinition(analysis) == "Act as " \o inferRole(analysis.originalText) \o ". "

generateFormatSpecification ==
  "\n\nPlease format your response with clear headings, bullet points for key information, and practical examples."

createEnhancementForIssue(issue, analysis, timestamp) ==
  LET baseEnhancement ==
        [id |-> Str("enhance_" \o issue.type \o "_" \o ToString(timestamp)),
         type |-> "issue_fix",
         category |-> issue.type,
         priority |-> getIssuePriority(issue),
         title |-> Str("Fix: " \o issue.message),
         description |-> Str(issue.suggestion),
         originalIssue |-> issue]
      With(enhancementType, previewText, action) ==
        ObjectSpread(baseEnhancement,
                     [enhancementType |-> enhancementType,
                      previewText |-> Str(previewText),
                      action |-> action])
  IN CASE issue.type = "length" ->
            With(strategies.STRUCTURE_IMPROVEMENT,
                 generateLengthFix(analysis.originalText, issue), "replace")
       [] issue.type = "vagueness" ->
            With(strategies.SPECIFICITY_BOOST,
                 generateSpecificityFix(analysis.originalText), "replace")
       [] issue.type = "context" ->
            With(strategies.CONTEXT_ADDITION, generateContextAddition, "prefix")
       [] issue.type = "role" ->
            With(strategies.ROLE_DEFINITION, generateRoleDefinition(analysis), "prefix")
       [] issue.type = "format" ->
            With(strategies.FORMAT_SPECIFICATION, generateFormatSpecification, "suffix")
       [] OTHER -> baseEnhancement

mapCategoryToTemplate(category) ==
  CASE category \in {"question", "instruction"} -> "general"
    [] category \in {"analysis", "data"} -> "analysis"
    [] category = "explanation" -> "academic"
    [] category = "technical" -> "technical"
    [] OTHER -> "general"

\* this.templates.categories[category] || [], and [] when the object has
\* no property categories
getTemplatesForCategory(self, category) ==
  IF "categories" \notin DOMAIN self.templates THEN <<>>
  ELSE IF category \notin DOMAIN self.templates.categories THEN <<>>
  ELSE self.templates.categories[category]

calculateTemplatePriority(template, analysis) ==
  LET Body(priority, k) ==
        IF analysis.issues[k].type \in template.addresses
        THEN priority + 15 ELSE priority
  IN Min(100,
         ForEach(1, Len(analysis.issues),
                 (IF template.priority # 0 THEN template.priority ELSE 50)
                 + (IF analysis.score < 50 THEN 20 ELSE 0),
                 Body))

applyTemplateToText(text, template) ==
  IF ~Truthy(template.content) THEN Str(text)
  ELSE ReplaceAll(
         ReplaceAll(
           ReplaceAll(template.content, "prompt", Str(text)),
           "context", Str("[Your specific context here]")),
         "requirements", Str("[Your specific requirements here]"))

\* getTemplateSuggestions of the enhancer
Enhancer_getTemplateSuggestions(self, analysis) ==
  LET relevantTemplates ==
        getTemplatesForCategory(self, mapCategoryToTemplate(analysis.category))
  IN [k \in 1..Len(relevantTemplates) |->
        LET template == relevantTemplates[k]
        IN [id |-> Str("template_") \o template.id,
            type |-> "template",
            category |-> "template",
            priority |-> calculateTemplatePriority(template, analysis),
            title |-> Str("Apply ") \o template.name \o Str(" Template"),
            description |-> template.description,
            template |-> template,
            previewText |-> applyTemplateToText(analysis.originalText, template),
            action |-> "replace",
            enhancementType |-> strategies.TEMPLATE_APPLICATION]]

inferDomain(text) ==
  LET lowerText == toLowerCase(text)
  IN IF IncludesAny(lowerText, {"code", "programming"}) THEN "software development"
     ELSE IF IncludesAny(lowerText, {"design", "ui"}) THEN "design"
     ELSE IF IncludesAny(lowerText, {"business", "marketing"}) THEN "business"
     ELSE IF IncludesAny(lowerText, {"data", "analysis"}) THEN "data analysis"
     ELSE IF IncludesAny(lowerText, {"writing", "content"}) THEN "content creation"
     ELSE "general problem-solving"

\* contextTemplates[0] with {domain} and {objective} replaced; the other
\* replace calls find nothing
addStrategicContext(text) ==
  "Context: I'm working on " \o inferDomain(text) \o " and need detailed guidance. "

restructurePrompt(text) ==
  LET sentences == SplitSentences(text)
      n == Len(sentences)
      \* Math.ceil(k * n / 3)
      CeilThirds(count, k) == (count * k + 2) \div 3
      context == ArraySlice(sentences, 0, CeilThirds(n, 1))
      request == ArraySlice(sentences, CeilThirds(n, 1), CeilThirds(n, 2))
      requirements == ArraySlice(sentences, CeilThirds(n, 2), n)
  IN (IF Len(context) > 0
      THEN "**Context:**\n" \o Join(context, ". ") \o ".\n\n" ELSE "")
     \o (IF Len(request) > 0
         THEN "**Request:**\n" \o Join(request, ". ") \o ".\n\n" ELSE "")
     \o (IF Len(requirements) > 0
         THEN "**Requirements:**\n" \o Join(requirements, ". ") \o "." ELSE "")

addExpertRole(text) == "Act as " \o inferRole(text) \o ". "

getStrategicEnhancements(analysis) ==
  LET text == analysis.originalText
      metrics == analysis.metrics
      \* a comparison with a property that is not there is false
      MetricAbove(object, name, limit) ==
        name \in DOMAIN object /\ object[name] > limit
  IN (IF analysis.score < 60 /\ MetricAbove(metrics, "wordCount", 10)
      THEN << [id |-> Str("strategic_context"),
               type |-> "strategic",
               category |-> "context",
               priority |-> 70,
               title |-> Str("Add Strategic Context"),
               description |-> Str("Provide background information to improve response quality"),
               previewText |-> Str(addStrategicContext(text)),
               action |-> "prefix",
               enhancementType |-> strategies.CONTEXT_ADDITION] >>
      ELSE <<>>)
     \o (IF MetricAbove(metrics, "wordCount", 100) /\ MetricAbove(metrics, "sentenceCount", 5)
         THEN << [id |-> Str("strategic_structure"),
                  type |-> "strategic",
                  category |-> "structure",
                  priority |-> 60,
                  title |-> Str("Improve Structure"),
                  description |-> Str("Organize prompt with clear sections and bullet points"),
                  previewText |-> Str(restructurePrompt(text)),
                  action |-> "replace",
                  enhancementType |-> strategies.STRUCTURE_IMPROVEMENT] >>
         ELSE <<>>)
     \o (IF /\ MetricAbove(metrics, "complexityScore", 50)
            /\ ~IncludesAny(toLowerCase(text), {"act as"})
         THEN << [id |-> Str("strategic_role"),
                  type |-> "strategic",
                  category |-> "role",
                  priority |-> 65,
                  title |-> Str("Define Expert Role"),
                  description |-> Str("Specify what type of expert should respond"),
                  previewText |-> Str(addExpertRole(text)),
                  action |-> "prefix",
                  enhancementType |-> strategies.ROLE_DEFINITION] >>
         ELSE <<>>)

prioritizeSuggestions_PriorityOnly(suggestions) ==
  SortBy(suggestions, LAMBDA a, b : b.priority - a.priority < 0)

prioritizeSuggestions(suggestions) ==
  LET \* typeOrder[type] || 0
      typeOrder(type) ==
        CASE type = "issue_fix" -> 3
          [] type = "strategic" -> 2
          [] type = "template" -> 1
          [] OTHER -> 0
  IN SortBy(suggestions,
            LAMBDA a, b :
              IF b.priority # a.priority THEN b.priority - a.priority < 0
              ELSE typeOrder(b.type) - typeOrder(a.type) < 0)

\* generateSuggestions of the enhancer: the value returned and the objects
\* the registered callback was called with
Enhancer_generateSuggestions(self, analysis, timestamp) ==
  LET fixes == [k \in 1..Len(analysis.issues) |->
                  createEnhancementForIssue(analysis.issues[k], analysis, timestamp)]
      sortedSuggestions ==
        prioritizeSuggestions(fixes
                              \o Enhancer_getTemplateSuggestions(self, analysis)
                              \o getStrategicEnhancements(analysis))
  IN [error |-> "", value |-> sortedSuggestions,
      called |-> IF self.onSuggestionsReady # "null"
                 THEN << sortedSuggestions >> ELSE <<>>]

\* ------------------------------------------------------------------------
\* The spec's error taxonomy; the code throws plain Errors told apart by
\* their messages
\* ------------------------------------------------------------------------
ErrorClass(msg) ==
  CASE msg = "" -> "none"
    [] msg = "Invalid template format" -> "ValidationError"
    [] msg = "Invalid import data format" -> "ValidationError"
    [] msg = "Template not found" -> "NotFoundError"
    [] msg = "Cannot modify system templates" -> "PermissionError"
    [] msg = "Cannot delete system templates" -> "PermissionError"
    [] OTHER -> msg

\* ------------------------------------------------------------------------
\* The objects after construction: new PromptAnalyzer(settings),
\* new PromptEnhancer() with templates = {}
\* ------------------------------------------------------------------------
NewAnalyzer == [onAnalysisComplete |-> "null"]

NewEnhancer == [templates |-> EmptyObject, onSuggestionsReady |-> "null"]

\* ------------------------------------------------------------------------
\* State
\* ------------------------------------------------------------------------
VARIABLES
  templates,      \* Map id -> template object
  categories,     \* category id -> list of template ids
  userTemplates,  \* Map id -> template object
  sameObject,     \* ids under which templates and userTemplates hold one object
  recentlyUsed,   \* list of ids, most recent first
  favorites,      \* Set of ids
  now,            \* Date.now() at the last call
  lastOp,         \* the last call: operation, arguments, outcome
  firstStored,    \* id -> the first template stored under it that was not user-created
  analyzer,       \* the PromptAnalyzer object: onAnalysisComplete
  enhancer,       \* the PromptEnhancer object: templates, onSuggestionsReady
  called          \* the objects the last call handed to a callback, in order

vars ==
  << templates, categories, userTemplates, sameObject, recentlyUsed,
     favorites, now, lastOp, firstStored, analyzer, enhancer, called >>

Store ==
  [templates |-> templates, categories |-> categories,
   userTemplates |-> userTemplates, sameObject |-> sameObject,
   recentlyUsed |-> recentlyUsed, favorites |-> favorites]

Remember(first, m) ==
  LET fresh == {k \in MapKeySet(m) : ~MapGet(m, k).isUserCreated} \ DOMAIN first
  IN [k \in DOMAIN first \cup fresh |->
        IF k \in DOMAIN first THEN first[k] ELSE MapGet(m, k)]

Init ==
  /\ templates = NewStore.templates
  /\ categories = NewStore.categories
  /\ userTemplates = NewStore.userTemplates
  /\ sameObject = NewStore.sameObject
  /\ recentlyUsed = NewStore.recentlyUsed
  /\ favorites = NewStore.favorites
  /\ now = StartTime
  /\ lastOp = [op |-> "new", id |-> undefined, arg |-> <<>>,
               error |-> "", value |-> undefined]
  /\ firstStored = Remember(<<>>, NewStore.templates)
  /\ analyzer = NewAnalyzer
  /\ enhancer = NewEnhancer
  /\ called = <<>>

\* one call: the clock advances, the store becomes the outcome's store
Step(op, id, arg, outcome) ==
  /\ now' = now + 1
  /\ templates' = outcome.store.templates
  /\ categories' = outcome.store.categories
  /\ userTemplates' = outcome.store.userTemplates
  /\ sameObject' = outcome.store.sameObject
  /\ recentlyUsed' = outcome.store.recentlyUsed
  /\ favorites' = outcome.store.favorites
  /\ lastOp' = [op |-> op, id |-> id, arg |-> arg,
                error |-> outcome.error, value |-> outcome.value]
  /\ firstStored' = Remember(firstStored, outcome.store.templates)
  /\ UNCHANGED << analyzer, enhancer >>
  /\ called' = <<>>

Call(op, id, arg, outcome) ==
  /\ now < StartTime + MaxOps
  /\ Step(op, id, arg, outcome)

\* ------------------------------------------------------------------------
\* Inputs
\* ------------------------------------------------------------------------
\* "Lang: {language}"
ContentLang == << "Lang: ", "{", "language", "}" >>

\* a complete template object literal without id
NewTemplate ==
  [id |-> undefined, name |-> << "T" >>, description |-> Str("d"),
   content |-> ContentLang, category |-> Str("technical"),
   priority |-> 0, addresses |-> {}, isUserCreated |-> FALSE,
   usageCount |-> 0, lastUsed |-> 0, createdAt |-> 0, updatedAt |-> 0]

SystemId == Str("tech_code_help")

UserId == << "t" >>

GhostId == Str("ghost")

\* object literals that differ from NewTemplate in one property
TemplateData ==
  { NewTemplate,
    [NewTemplate EXCEPT !.name = undefined],
    [NewTemplate EXCEPT !.name = <<>>],
    [NewTemplate EXCEPT !.category = undefined],
    [NewTemplate EXCEPT !.description = undefined] }

\* further object literals handed to addTemplate: a name whose slug is t_1,
\* an empty content, a category that is none of the six, explicit ids
MoreTemplates ==
  { [NewTemplate EXCEPT !.name = << "T", " ", "1" >>],
    [NewTemplate EXCEPT !.content = <<>>],
    [NewTemplate EXCEPT !.category = Str("custom")],
    [NewTemplate EXCEPT !.id = UserId],
    [NewTemplate EXCEPT !.id = UserId, !.isUserCreated = TRUE],
    [NewTemplate EXCEPT !.id = SystemId],
    [NewTemplate EXCEPT !.id = SystemId, !.isUserCreated = TRUE] }

Ids == { SystemId, UserId, GhostId }

Patches ==
  { [name |-> <<>>],
    [category |-> Str("creative")],
    [isUserCreated |-> FALSE],
    [id |-> << "x" >>] }

\* updateTemplate(templateId, updates)
Updates ==
  { << UserId, updates >> : updates \in Patches }
  \cup { << SystemId, [category |-> Str("creative")] >>,
         << GhostId, [category |-> Str("creative")] >> }

\* import data: lists that mix valid and invalid entries, data without a
\* template array (a snapshot of the store itself is a further input)
ImportData ==
  { [isArray |-> TRUE,
     templates |-> << [NewTemplate EXCEPT !.id = UserId],
                      [NewTemplate EXCEPT !.id = << "u" >>, !.name = <<>>],
                      [NewTemplate EXCEPT !.id = << "v" >>, !.isUserCreated = TRUE] >>,
     favorites |-> { UserId, GhostId }],
    [isArray |-> TRUE,
     templates |-> << [NewTemplate EXCEPT !.description = undefined],
                      NewTemplate >>,
     favorites |-> {}],
    [isArray |-> FALSE, templates |-> <<>>, favorites |-> {}] }

\* ------------------------------------------------------------------------
\* Operations
\* ------------------------------------------------------------------------
AddTemplate ==
  \E template \in TemplateData \cup MoreTemplates :
    Call("add", template.id, template, addTemplate(Store, template, now + 1))

CreateUserTemplate ==
  \E templateData \in TemplateData :
    Call("createUser", undefined, templateData,
         createUserTemplate(Store, templateData, now + 1))

UpdateTemplate ==
  \E call \in Updates :
    Call("update", call[1], call[2],
         updateTemplate(Store, call[1], call[2], now + 1))

DeleteTemplate ==
  \E templateId \in Ids :
    Call("delete", templateId, <<>>, deleteTemplate(Store, templateId))

ToggleFavorite ==
  \E templateId \in Ids :
    Call("toggleFavorite", templateId, <<>>, toggleFavorite(Store, templateId))

ApplyTemplate ==
  \E templateId \in Ids :
    Call("apply", templateId, << Str("hi"), <<>> >>,
         applyTemplate(Store, templateId, Str("hi"), <<>>, now + 1))

ImportTemplates ==
  \E data \in ImportData \cup { exportTemplates(Store, FALSE) } :
    Call("import", undefined, data, importTemplates(Store, data, now + 1))

\* analyses handed to getTemplateSuggestions: the analyzer's results for a
\* short vague prompt, a prompt with code and a prompt that asks for basic
\* help with data
SuggestionAnalyses ==
  { analyze(NewAnalyzer, JsString(text), EmptyObject, StartTime).value :
      text \in { "explain",
                 "fix ~x = 1~ so that the loop ends when the counter gets to ten",
                 "analyze 25% of 300 users and give basic help" } }

GetTemplateSuggestions ==
  \E analysis \in SuggestionAnalyses :
    Call("getTemplateSuggestions", undefined, analysis,
         Return(Store, getTemplateSuggestions(Store, analysis)))

Next ==
  \/ AddTemplate
  \/ CreateUserTemplate
  \/ UpdateTemplate
  \/ DeleteTemplate
  \/ ToggleFavorite
  \/ ApplyTemplate
  \/ ImportTemplates
  \/ GetTemplateSuggestions

Spec == Init /\ [][Next]_vars

\* ------------------------------------------------------------------------
\* Properties
\* ------------------------------------------------------------------------
StoreVars ==
  << templates, categories, userTemplates, sameObject, recentlyUsed, favorites >>

Missing(x) == x = undefined \/ x = <<>>

\* C1: every template that was stored without being user-created is still
\* in the store under its id, with the name, description, content, category,
\* priority, addresses and isUserCreated it had when it was first stored.
C1_SystemTemplatesImmutable ==
  \A id \in DOMAIN firstStored :
    /\ MapHas(templates, id)
    /\ LET t == MapGet(templates, id)
           f == firstStored[id]
       IN /\ t.name = f.name
          /\ t.description = f.description
          /\ t.content = f.content
          /\ t.category = f.category
          /\ t.priority = f.priority
          /\ t.addresses = f.addresses
          /\ t.isUserCreated = f.isUserCreated

\* C2: update and delete called with the id of a stored template that is
\* not user-created fail with PermissionError and leave the whole store as
\* it was.
C2_SystemUpdateDeleteRejected ==
  [][ ( /\ lastOp'.op \in {"update", "delete"}
        /\ MapHas(templates, lastOp'.id)
        /\ ~MapGet(templates, lastOp'.id).isUserCreated )
      => ( /\ ErrorClass(lastOp'.error) = "PermissionError"
           /\ UNCHANGED StoreVars ) ]_vars

\* an update of a template that add stored without isUserCreated was refused
C2_Witness ==
  /\ lastOp.op = "update"
  /\ lastOp.id = UserId
  /\ lastOp.error = "Cannot modify system templates"
  /\ MapHas(templates, UserId)
  /\ ~MapGet(templates, UserId).isUserCreated

\* the tokens {v} of a content
TokensOf(content) ==
  { content[i + 1] : i \in { j \in 1..(Len(content) - 2) :
                               content[j] = "{" /\ content[j + 2] = "}" } }

Occurs(piece, text) ==
  \E i \in 1..(Len(text) - Len(piece) + 1) :
    SubSeq(text, i, i + Len(piece) - 1) = piece

\* C3: after apply, every token {v} of the template's content for which the
\* call supplied no value (v no key of variables, v not prompt or
\* original_prompt) has been replaced by the literal [v].
C3_UnresolvedBecomesPlaceholder ==
  ( /\ lastOp.op = "apply"
    /\ lastOp.error = ""
    /\ MapHas(templates, lastOp.id) )
  => \A v \in TokensOf(MapGet(templates, lastOp.id).content) :
       v \notin VarKeys(lastOp.arg[2]) \cup {"prompt", "original_prompt"}
       => /\ Occurs(<< "[", v, "]" >>, lastOp.value)
          /\ ~Occurs(<< "{", v, "}" >>, lastOp.value)

\* C5: apply with an id that is not in the store fails with NotFoundError
\* and records no usage: the recency list and every template's usageCount
\* and lastUsed stay as they were.
C5_ApplyUnknownRecordsNothing ==
  [][ ( /\ lastOp'.op = "apply"
        /\ ~MapHas(templates, lastOp'.id) )
      => ( /\ ErrorClass(lastOp'.error) = "NotFoundError"
           /\ recentlyUsed' = recentlyUsed
           /\ MapKeySet(templates') = MapKeySet(templates)
           /\ \A k \in MapKeySet(templates) :
                /\ MapGet(templates', k).usageCount = MapGet(templates, k).usageCount
                /\ MapGet(templates', k).lastUsed = MapGet(templates, k).lastUsed
           /\ \A k \in MapKeySet(userTemplates) :
                /\ MapHas(userTemplates', k)
                /\ MapGet(userTemplates', k).usageCount = MapGet(userTemplates, k).usageCount
                /\ MapGet(userTemplates', k).lastUsed = MapGet(userTemplates, k).lastUsed ) ]_vars

\* apply of an unknown id was refused in a store that has usage on record
C5_Witness ==
  /\ lastOp.op = "apply"
  /\ lastOp.id = GhostId
  /\ lastOp.error = "Template not found"
  /\ recentlyUsed # <<>>


\* one of the four required properties is missing or empty
Incomplete(t) ==
  \/ Missing(t.name)
  \/ Missing(t.content)
  \/ Missing(t.category)
  \/ Missing(t.description)

SameDefinition(stored, given) ==
  /\ stored.name = given.name
  /\ stored.description = given.description
  /\ stored.content = given.content
  /\ stored.category = given.category
  /\ stored.priority = given.priority
  /\ stored.addresses = given.addresses
  /\ stored.isUserCreated = given.isUserCreated

\* C7: importing the export of the store into a freshly constructed store
\* gives a store with the same set of template ids and the same favorites.
C7_ExportImportRoundTrip ==
  LET fresh == importTemplates(NewStore, exportTemplates(Store, FALSE), now + 1).store
  IN /\ MapKeySet(fresh.templates) = MapKeySet(templates)
     /\ fresh.favorites = favorites

\* C8: an import of a list that mixes valid and invalid entries does not
\* fail, stores every valid entry, stores no invalid one, and ends with the
\* store that the import of the valid entries alone gives.
C8_ImportSkipsInvalid ==
  [][ ( /\ lastOp'.op = "import"
        /\ lastOp'.arg.isArray )
      => LET list == lastOp'.arg.templates
             validOnly == SelectSeq(list, LAMBDA t : ~Incomplete(t))
             alone == importEach(Store, validOnly, now')
         IN /\ lastOp'.error = ""
            /\ \A i \in 1..Len(list) :
                 (~Incomplete(list[i]) /\ ~Missing(list[i].id))
                 => /\ MapHas(templates', list[i].id)
                    /\ \E j \in i..Len(list) :
                         /\ list[j].id = list[i].id
                         /\ ~Incomplete(list[j])
                         /\ SameDefinition(MapGet(templates', list[i].id), list[j])
            /\ \A k \in MapKeySet(templates') :
                 (~MapHas(templates, k) \/ MapGet(templates', k) # MapGet(templates, k))
                 => ~Incomplete(MapGet(templates', k))
            /\ templates' = alone.templates
            /\ userTemplates' = alone.userTemplates
            /\ categories' = alone.categories ]_vars

\* the entry that follows an invalid entry of the list was stored, the
\* invalid entry was not
C8_Witness ==
  /\ lastOp.op = "import"
  /\ lastOp.error = ""
  /\ lastOp.arg.isArray
  /\ \E i \in 1..Len(lastOp.arg.templates) : \E j \in 1..Len(lastOp.arg.templates) :
       /\ i < j
       /\ Incomplete(lastOp.arg.templates[i])
       /\ ~MapHas(templates, lastOp.arg.templates[i].id)
       /\ ~Incomplete(lastOp.arg.templates[j])
       /\ MapHas(templates, lastOp.arg.templates[j].id)

\* C9: add fails with ValidationError when name, content, category or
\* description is missing or empty, and then leaves templates and category
\* lists as they were; otherwise it succeeds and the returned id gets the
\* added template.
C9_AddValidates ==
  [][ lastOp'.op = "add"
      => IF Incomplete(lastOp'.arg)
         THEN /\ ErrorClass(lastOp'.error) = "ValidationError"
              /\ templates' = templates
              /\ categories' = categories
         ELSE /\ lastOp'.error = ""
              /\ MapHas(templates', lastOp'.value)
              /\ MapGet(templates', lastOp'.value).id = lastOp'.value
              /\ SameDefinition(MapGet(templates', lastOp'.value), lastOp'.arg) ]_vars

\* an add without description was refused by a store that holds an added
\* template
C9_Witness ==
  /\ lastOp.op = "add"
  /\ Missing(lastOp.arg.description)
  /\ ~Missing(lastOp.arg.name)
  /\ lastOp.error = "Invalid template format"
  /\ Len(templates) > Len(DefaultTemplates)

\* the n-th id tried for a slug: slug, slug_1, slug_2, ...
Candidate(base, n) ==
  IF n = 0 THEN base ELSE base \o << "_" >> \o NumberToString(n)

\* C10: a successful add without id returns an id that was no key of the
\* store: the slug of the name, or the slug with the smallest counter not
\* taken; no stored template is replaced and the store grows by one.
C10_GeneratedIdIsFresh ==
  [][ ( /\ lastOp'.op = "add"
        /\ Missing(lastOp'.arg.id)
        /\ lastOp'.error = "" )
      => /\ ~MapHas(templates, lastOp'.value)
         /\ \E n \in 0..Len(templates) :
              /\ lastOp'.value = Candidate(SlugBase(lastOp'.arg.name), n)
              /\ \A m \in 0..(n - 1) :
                   MapHas(templates, Candidate(SlugBase(lastOp'.arg.name), m))
         /\ Len(templates') = Len(templates) + 1
         /\ \A k \in MapKeySet(templates) :
              /\ MapHas(templates', k)
              /\ MapGet(templates', k) = MapGet(templates, k) ]_vars

\* the name "T 1" got the id t_1_1 because t_1 was taken
C10_Witness ==
  /\ lastOp.op = "add"
  /\ Missing(lastOp.arg.id)
  /\ lastOp.arg.name = << "T", " ", "1" >>
  /\ lastOp.value = << "t", "_", "1", "_", "1" >>


\* ------------------------------------------------------------------------
\* applyTemplate on contents, prompts and variable objects of several
\* shapes: a store that gets one template under UserId and is applied
\* ------------------------------------------------------------------------
MaxApplyOps == 2

\* "{prompt} / {language} / {prompt}"
ContentPrompt ==
  << "{", "prompt", "}", " / ", "{", "language", "}", " / ", "{", "prompt", "}" >>

Contents == { ContentLang, ContentPrompt }

\* "", "ignored", "Use {language}", "$$5"
Prompts ==
  { <<>>, Str("ignored"), << "Use ", "{", "language", "}" >>, << "$$", "5" >> }

\* {}, {language: "Go"}, {language: ""}, {prompt: "P"}
VariableObjects ==
  { <<>>,
    << << "language", Str("Go") >> >>,
    << << "language", <<>> >> >>,
    << << "prompt", Str("P") >> >> }

ContextBoostId == Str("quick_context_boost")

AddContent ==
  \E content \in Contents :
    LET template == [NewTemplate EXCEPT !.id = UserId, !.content = content]
    IN /\ now < StartTime + MaxApplyOps
       /\ Step("add", UserId, template, addTemplate(Store, template, now + 1))

ApplyWith ==
  \E templateId \in { UserId, ContextBoostId } :
    \E originalPrompt \in Prompts, variables \in VariableObjects :
      /\ now < StartTime + MaxApplyOps
      /\ Step("apply", templateId, << originalPrompt, variables >>,
              applyTemplate(Store, templateId, originalPrompt, variables, now + 1))

NextApply ==
  \/ AddContent
  \/ ApplyWith

SpecApply == Init /\ [][NextApply]_vars

\* the keys for which a call supplies a text: the keys of variables with a
\* non-empty value, and prompt and original_prompt unless variables has them
Supplied(originalPrompt, variables) ==
  { k \in VarKeys(variables) : ~Missing(VarValue(variables, k)) }
  \cup ( IF Missing(originalPrompt) THEN {}
         ELSE {"prompt", "original_prompt"} \ VarKeys(variables) )

SuppliedText(originalPrompt, variables, k) ==
  IF k \in VarKeys(variables) THEN VarValue(variables, k) ELSE originalPrompt

\* the content with each of its tokens replaced by the text supplied for it
RECURSIVE Substituted(_, _, _)
Substituted(content, originalPrompt, variables) ==
  IF content = <<>> THEN <<>>
  ELSE IF /\ Len(content) >= 3
          /\ content[1] = "{"
          /\ content[3] = "}"
          /\ content[2] \in Supplied(originalPrompt, variables)
  THEN SuppliedText(originalPrompt, variables, content[2])
       \o Substituted(SubSeq(content, 4, Len(content)), originalPrompt, variables)
  ELSE <<Head(content)>> \o Substituted(Tail(content), originalPrompt, variables)

\* C4: when every token of the content has a non-empty text supplied, by
\* variables or as prompt / original_prompt, apply returns the content with
\* every token replaced by that text and everything else as it was.
C4_ApplySubstitutesTokens ==
  ( /\ lastOp.op = "apply"
    /\ lastOp.error = ""
    /\ MapHas(templates, lastOp.id)
    /\ TokensOf(MapGet(templates, lastOp.id).content)
         \subseteq Supplied(lastOp.arg[1], lastOp.arg[2]) )
  => lastOp.value = Substituted(MapGet(templates, lastOp.id).content,
                                lastOp.arg[1], lastOp.arg[2])


\* ------------------------------------------------------------------------
\* The recency list at its cap.  Templates are applied, the first one of
\* the store that is not listed or a listed one again; a user template is
\* created when every stored template is listed, until the store holds more
\* than RecentCap templates; a listed user template is deleted from the
\* full list.
\* ------------------------------------------------------------------------
\* user templates created on top of the default ones
MaxUserTemplates == 10

\* applications of a template that has been applied before
MaxReapply == 1

\* calls on the store after its construction
MaxRecencyOps == 34

Applied(m) == {k \in MapKeySet(m) : MapGet(m, k).usageCount > 0}

RECURSIVE Sum(_, _)
Sum(m, i) == IF i > Len(m) THEN 0 ELSE m[i].value.usageCount + Sum(m, i + 1)

Reapplied == Sum(templates, 1) - Cardinality(Applied(templates))

Unlisted == SelectSeq(templates, LAMBDA e : ~Includes(recentlyUsed, e.key))

CreateNext ==
  /\ now < StartTime + MaxRecencyOps
  /\ Len(templates) < Len(DefaultTemplates) + MaxUserTemplates
  /\ Unlisted = <<>>
  /\ Step("createUser", undefined, NewTemplate,
          createUserTemplate(Store, NewTemplate, now + 1))

ApplyUnlisted ==
  /\ now < StartTime + MaxRecencyOps
  /\ Unlisted # <<>>
  /\ Step("apply", Unlisted[1].key, << Str("hi"), <<>> >>,
          applyTemplate(Store, Unlisted[1].key, Str("hi"), <<>>, now + 1))

ApplyListed ==
  /\ now < StartTime + MaxRecencyOps
  /\ recentlyUsed # <<>>
  /\ Reapplied < MaxReapply
  /\ \E i \in { 1, (Len(recentlyUsed) + 1) \div 2, Len(recentlyUsed) } :
       Step("apply", recentlyUsed[i], << Str("hi"), <<>> >>,
            applyTemplate(Store, recentlyUsed[i], Str("hi"), <<>>, now + 1))

DeleteListed ==
  /\ now < StartTime + MaxRecencyOps
  /\ Len(recentlyUsed) = RecentCap
  /\ Includes(recentlyUsed, UserId)
  /\ Step("delete", UserId, <<>>, deleteTemplate(Store, UserId))

NextRecency ==
  \/ CreateNext
  \/ ApplyUnlisted
  \/ ApplyListed
  \/ DeleteListed

SpecRecency == Init /\ [][NextRecency]_vars

\* C6: the recency list has at most 20 entries and no id twice; a
\* successful apply puts its id first, adds one to the template's
\* usageCount and keeps the other entries in their order, the last one
\* leaving only when there would be more than 20.
C6_RecencyList ==
  /\ [](/\ Len(recentlyUsed) <= 20
        /\ \A i, j \in 1..Len(recentlyUsed) :
             recentlyUsed[i] = recentlyUsed[j] => i = j)
  /\ [][ ( /\ lastOp'.op = "apply"
           /\ lastOp'.error = "" )
         => LET id == lastOp'.id
                others == SelectSeq(recentlyUsed, LAMBDA x : x # id)
            IN /\ recentlyUsed'[1] = id
               /\ MapGet(templates', id).usageCount
                    = MapGet(templates, id).usageCount + 1
               /\ Tail(recentlyUsed')
                    = IF Len(others) <= 19 THEN others
                      ELSE SubSeq(others, 1, 19) ]_vars

\* the list is full and a template that was applied is not on it: an apply
\* has pushed the oldest entry out
C6_Witness ==
  /\ lastOp.op = "apply"
  /\ lastOp.error = ""
  /\ Len(recentlyUsed) = 20
  /\ \E k \in Applied(templates) : ~Includes(recentlyUsed, k)


\* ------------------------------------------------------------------------
\* Properties of createUserTemplate, deleteTemplate, updateTemplate and
\* toggleFavorite
\* ------------------------------------------------------------------------
\* C11: createUser(data) fails with ValidationError, leaving the store as it
\* was, for exactly the data for which add(data) fails, and where add
\* succeeds it succeeds and the template stored under the returned id has
\* isUserCreated = TRUE.
C11_CreateUserIsAddForced ==
  [][ lastOp'.op = "createUser"
      => LET added == addTemplate(Store, lastOp'.arg, now')
         IN IF added.error # ""
            THEN /\ ErrorClass(lastOp'.error) = "ValidationError"
                 /\ UNCHANGED StoreVars
            ELSE /\ lastOp'.error = ""
                 /\ MapHas(templates', lastOp'.value)
                 /\ MapGet(templates', lastOp'.value).isUserCreated ]_vars

\* C12: after a delete that succeeded on a stored user-created template the
\* id is no key of templates, is in no category's id list, is no favorite
\* and is not in the recency list.
C12_DeletedIdOccursNowhere ==
  [][ ( /\ lastOp'.op = "delete"
        /\ lastOp'.error = ""
        /\ MapHas(templates, lastOp'.id)
        /\ MapGet(templates, lastOp'.id).isUserCreated )
      => ( /\ ~MapHas(templates', lastOp'.id)
           /\ \A c \in DOMAIN categories' : ~Includes(categories'[c], lastOp'.id)
           /\ lastOp'.id \notin favorites'
           /\ ~Includes(recentlyUsed', lastOp'.id) ) ]_vars

\* C13 as stated: update and delete called with an id that is no key of
\* templates both fail with NotFoundError and leave the store as it was.
C13_UnknownIdIsNotFound ==
  [][ ( /\ lastOp'.op \in {"update", "delete"}
        /\ ~MapHas(templates, lastOp'.id) )
      => ( /\ ErrorClass(lastOp'.error) = "NotFoundError"
           /\ UNCHANGED StoreVars ) ]_vars

\* C13 amended: with an id that is no key of templates, update fails with
\* NotFoundError and delete returns without an error; both leave the store
\* as it was.
C13_UnknownIdUpdateFailsDeleteReturns ==
  [][ ( /\ lastOp'.op \in {"update", "delete"}
        /\ ~MapHas(templates, lastOp'.id) )
      => ( /\ lastOp'.op = "update" => ErrorClass(lastOp'.error) = "NotFoundError"
           /\ lastOp'.op = "delete" => lastOp'.error = ""
           /\ UNCHANGED StoreVars ) ]_vars

\* delete of an id that is no key of templates but is a favorite has returned
C13_Witness ==
  /\ lastOp.op = "delete"
  /\ lastOp.id = GhostId
  /\ lastOp.error = ""
  /\ ~MapHas(templates, GhostId)
  /\ GhostId \in favorites

\* C14: in every state and for every id, two calls of toggleFavorite(id) in
\* a row give the favorites of before; one call changes whether id is a
\* favorite and leaves every other id's membership and the rest of the store
\* as they were.
C14_ToggleFavoriteInvolution ==
  /\ [](\A id \in Ids \cup MapKeySet(templates) :
          toggleFavorite(toggleFavorite(Store, id).store, id).store.favorites
            = favorites)
  /\ [][ lastOp'.op = "toggleFavorite"
         => ( /\ lastOp'.error = ""
              /\ (lastOp'.id \in favorites') # (lastOp'.id \in favorites)
              /\ favorites' \ {lastOp'.id} = favorites \ {lastOp'.id}
              /\ UNCHANGED << templates, categories, userTemplates,
                              sameObject, recentlyUsed >> ) ]_vars

\* a call has taken an id out of favorites and another id is still in it
C14_Witness ==
  /\ lastOp.op = "toggleFavorite"
  /\ lastOp.id \notin favorites
  /\ favorites # {}


\* ------------------------------------------------------------------------
\* The analyzer and the enhancer at work: the host connects the callbacks,
\* hands templates to the enhancer, has a text analysed and has suggestions
\* generated for the analysis it received last.
\* ------------------------------------------------------------------------
\* number of calls of analyze and generateSuggestions
MaxEnhancerOps == 3

\* what the host may hand to analyze.  The prompts: short ones, vague ones,
\* one of each category, one without any issue and with the highest
\* specificity, one with five issues, one of 501 words, one of 104 words in
\* 13 sentences, one of two lines, one of white space only, one of 13 words
\* with six technical terms that starts with "You are", one of 120 words in
\* six sentences.
AnalyzeInputs ==
  LET RECURSIVE Repeat(_, _)
      Repeat(text, n) ==
        IF n = 0 THEN ""
        ELSE IF n % 2 = 1 THEN text \o Repeat(text, n - 1)
        ELSE LET half == Repeat(text, n \div 2) IN half \o half
      prompts ==
        { "hi",
          "explain",
          "Tell me about ",
          "   ",
          "What is the best way to learn programming quickly and why",
          "Write a function that sorts a list of numbers",
          "analyze 25% of 300 users and give basic help",
          "fix ~x = 1~ so that the loop ends when the counter gets to ten",
          "we lost $500 and 30 customers last month",
          "please run ~top~ for 30 users",
          "give me some quick info",
          "give me the code",
          "Describe the plan\nin detail for the next forty days of work please",
          "You are a tutor. Given this background, list two examples.",
          "act as expert in this context list " \o Repeat("exactly 10 ", 30),
          "general help "
            \o Repeat(Repeat("supercalifragilisticexpialidocious", 2) \o " ", 30)
            \o "explain",
          Repeat("a ", 500) \o "a",
          Repeat("We implement and optimize the framework if needed. ", 13),
          "You are to implement and optimize the algorithm and analyze the framework architecture",
          Repeat("We implement and optimize the framework if needed and we also review every part of the plan with care today. ", 5)
            \o "We implement and optimize the framework if needed and we also review every part of the plan with care today." }
  IN { JsString(text) : text \in prompts }
     \cup { JsString(""),
            [type |-> "object", value |-> "null"],
            [type |-> "undefined", value |-> "undefined"],
            [type |-> "number", value |-> "0"],
            [type |-> "number", value |-> "42"],
            [type |-> "boolean", value |-> "true"],
            [type |-> "object", value |-> "[object Object]"] }

\* templates as the host hands them to the enhancer: under categories,
\* each category name with the array of its templates
HostTemplates ==
  [categories |->
     [c \in {"general", "technical", "creative", "analysis", "business", "academic"} |->
        getTemplatesByCategory(Store, Str(c))]]

\* background.js: analyzer.onAnalysisComplete = ..., enhancer.onSuggestionsReady = ...
ConnectComponents ==
  /\ analyzer.onAnalysisComplete = "null"
  /\ analyzer' = [analyzer EXCEPT !.onAnalysisComplete = "handleAnalysisComplete"]
  /\ enhancer' = [enhancer EXCEPT !.onSuggestionsReady = "handleSuggestionsReady"]
  /\ lastOp' = [op |-> "connect", id |-> undefined, arg |-> <<>>,
                error |-> "", value |-> undefined]
  /\ called' = <<>>
  /\ UNCHANGED << templates, categories, userTemplates, sameObject, recentlyUsed,
                  favorites, firstStored, now >>

\* updateTemplates(newTemplates)
UpdateTemplates ==
  /\ "categories" \notin DOMAIN enhancer.templates
  /\ enhancer' = [enhancer EXCEPT !.templates = ObjectSpread(@, HostTemplates)]
  /\ lastOp' = [op |-> "updateTemplates", id |-> undefined, arg |-> HostTemplates,
                error |-> "", value |-> undefined]
  /\ called' = <<>>
  /\ UNCHANGED << templates, categories, userTemplates, sameObject, recentlyUsed,
                  favorites, firstStored, now, analyzer >>

\* analyze depends on the analyzer, the input and the clock only; its
\* outcomes are worked out once
AnalyzeOutcomes ==
  [self \in {NewAnalyzer, [NewAnalyzer EXCEPT !.onAnalysisComplete = "handleAnalysisComplete"]},
   input \in AnalyzeInputs,
   timestamp \in (StartTime + 1)..(StartTime + MaxEnhancerOps) |->
     analyze(self, input, [platform |-> "chatgpt"], timestamp)]

Analyze ==
  \E input \in AnalyzeInputs :
    LET outcome == AnalyzeOutcomes[analyzer, input, now + 1]
    IN /\ now < StartTime + MaxEnhancerOps
       /\ now' = now + 1
       /\ lastOp' = [op |-> "analyze", id |-> undefined, arg |-> input,
                     error |-> outcome.error, value |-> outcome.value]
       /\ called' = outcome.called
       /\ UNCHANGED << templates, categories, userTemplates, sameObject, recentlyUsed,
                  favorites, firstStored, analyzer, enhancer >>

\* generateSuggestions(analysis) for the analysis returned last
GenerateSuggestions ==
  /\ lastOp.op = "analyze"
  /\ lastOp.error = ""
  /\ now < StartTime + MaxEnhancerOps
  /\ LET outcome == Enhancer_generateSuggestions(enhancer, lastOp.value, now + 1)
     IN /\ now' = now + 1
        /\ lastOp' = [op |-> "generateSuggestions", id |-> undefined,
                      arg |-> lastOp.value,
                      error |-> outcome.error, value |-> outcome.value]
        /\ called' = outcome.called
        /\ UNCHANGED << templates, categories, userTemplates, sameObject, recentlyUsed,
                  favorites, firstStored, analyzer, enhancer >>

NextEnhancer ==
  \/ ConnectComponents
  \/ UpdateTemplates
  \/ Analyze
  \/ GenerateSuggestions

SpecEnhancer == Init /\ [][NextEnhancer]_vars


\* ------------------------------------------------------------------------
\* Properties of the analyzer and the enhancer (SpecEnhancer)
\* ------------------------------------------------------------------------
AnalyzedText == lastOp.op = "analyze" /\ lastOp.arg.type = "string" /\ lastOp.arg.value # ""

\* C15: for every non-empty text the score analyze returns is an integer
\* from 0 to 100, whatever issues fire and whatever the word count and the
\* specificity and readability metrics are.
C15_ScoreFromZeroToHundred ==
  AnalyzedText => lastOp.value.score \in 0..100

\* a text with five issues and fewer than 50 words has been analysed: the
\* penalties take the sum below 0 and the score is 0
C15_Witness ==
  /\ AnalyzedText
  /\ Len(lastOp.value.issues) >= 5
  /\ lastOp.value.metrics.wordCount < rules.optimalLength[1]
  /\ lastOp.value.score = 0

\* C16: analyze never fails: for the empty string, null and any value that
\* is no string it returns an analysis with score 0, category general, no
\* issues and no suggestions, and raises no error.
C16_AnalyzeNeverFails ==
  lastOp.op = "analyze" =>
    /\ lastOp.error = ""
    /\ ~AnalyzedText =>
         /\ lastOp.value.score = 0
         /\ lastOp.value.category = "general"
         /\ lastOp.value.issues = <<>>
         /\ lastOp.value.suggestions = <<>>

\* analyze has returned for a number
C16_Witness ==
  /\ lastOp.op = "analyze"
  /\ lastOp.arg = [type |-> "number", value |-> "42"]
  /\ lastOp.error = ""
  /\ lastOp.value.score = 0

\* C17 as stated: every call of analyze made while a callback is registered
\* invokes the callback exactly once, after the score is computed, with the
\* analysis the call returns.
C17_EveryCallInvokesCallback ==
  [][(lastOp'.op = "analyze" /\ analyzer.onAnalysisComplete # "null")
       => called' = << lastOp'.value >>]_vars

\* C17 amended: while a callback is registered, a call of analyze with a
\* non-empty string invokes the callback exactly once, after the score is
\* computed, with the analysis the call returns; a call with an empty text
\* or with a value that is no string invokes no callback.
C17_CallbackOnceForNonEmptyText ==
  [][(lastOp'.op = "analyze" /\ analyzer.onAnalysisComplete # "null")
       => called' = (IF AnalyzedText' THEN << lastOp'.value >> ELSE <<>>)]_vars

\* the callback has received an analysis with its score
C17_Witness ==
  /\ AnalyzedText
  /\ analyzer.onAnalysisComplete # "null"
  /\ called = << lastOp.value >>
  /\ lastOp.value.score > 0


\* ------------------------------------------------------------------------
\* Properties of getTemplateSuggestions (Spec)
\* ------------------------------------------------------------------------
\* the points of the first k issues that the template addresses
RECURSIVE C18_IssuePoints(_, _, _)
C18_IssuePoints(template, issues, k) ==
  IF k = 0 THEN 0
  ELSE C18_IssuePoints(template, issues, k - 1)
       + (IF issues[k].type \notin template.addresses THEN 0
          ELSE CASE issues[k].severity = "high" -> 30
                 [] issues[k].severity = "medium" -> 20
                 [] issues[k].severity = "low" -> 10)

C18_Score(template, analysis) ==
  C18_IssuePoints(template, analysis.issues, Len(analysis.issues))
  + (IF template.category = Str(analysis.category) THEN 25 ELSE 0)
  + template.priority
  + (IF Includes(recentlyUsed, template.id) THEN 10 ELSE 0)
  + (IF template.id \in favorites THEN 15 ELSE 0)

\* C18: getTemplateSuggestions(analysis) returns exactly the stored
\* templates whose score is above 20, in non-increasing order of the score,
\* the score being the points of the issues the template addresses (30 for
\* high, 20 for medium, 10 for low), plus 25 if the categories are the
\* same, plus the priority of the template, plus 10 if its id is in the
\* recency list, plus 15 if its id is a favorite.
C18_SuggestionsAreTheTemplatesAbove20 ==
  (lastOp.op = "getTemplateSuggestions") =>
    LET result == lastOp.value
        stored == MapValues(templates)
        above == { k \in 1..Len(stored) : C18_Score(stored[k], lastOp.arg) > 20 }
    IN /\ lastOp.error = ""
       /\ Len(result) = Cardinality(above)
       /\ \A k \in above :
            \E j \in 1..Len(result) :
              /\ result[j].template = stored[k]
              /\ result[j].score = C18_Score(stored[k], lastOp.arg)
       /\ \A j \in 1..Len(result) : \E k \in above : result[j].template = stored[k]
       /\ \A j \in 1..(Len(result) - 1) : result[j].score >= result[j + 1].score

\* suggestions have been returned that leave a stored template out, hold a
\* favorite and a recently used template and differ in their scores
C18_Witness ==
  /\ lastOp.op = "getTemplateSuggestions"
  /\ Len(lastOp.value) >= 2
  /\ Len(lastOp.value) < Len(templates)
  /\ \E j \in 1..Len(lastOp.value) : lastOp.value[j].template.id \in favorites
  /\ \E j \in 1..Len(lastOp.value) : Includes(recentlyUsed, lastOp.value[j].template.id)
  /\ lastOp.value[1].score > lastOp.value[Len(lastOp.value)].score


\* the suggestion generateSuggestions returned for the issue, with the
\* parts the claim names
C19_FixOf(issue, s) ==
  /\ s.type = "issue_fix"
  /\ s.originalIssue = issue
  /\ {"enhancementType", "previewText", "action"} \subseteq DOMAIN s
  /\ s.action \in {"prefix", "suffix", "replace"}
  /\ issue.type = "length" => s.enhancementType = strategies.STRUCTURE_IMPROVEMENT
  /\ issue.type = "vagueness" => s.enhancementType = strategies.SPECIFICITY_BOOST
  /\ issue.type = "context" => s.enhancementType = strategies.CONTEXT_ADDITION
  /\ issue.type = "role" => s.enhancementType = strategies.ROLE_DEFINITION
  /\ issue.type = "format" => s.enhancementType = strategies.FORMAT_SPECIFICATION

\* C19 as stated: for every issue of the analysis, generateSuggestions
\* returns an issue_fix suggestion with an enhancementType, a previewText
\* and an action among prefix, suffix and replace; the enhancementType is
\* the structure improvement for length, the specificity boost for
\* vagueness, the context addition for context, the role definition for
\* role and the format specification for format; this for each of the six
\* issue types of the analyzer.
C19_EveryIssueHasItsFix ==
  (lastOp.op = "generateSuggestions") =>
    \A k \in 1..Len(lastOp.arg.issues) :
      \E j \in 1..Len(lastOp.value) :
        C19_FixOf(lastOp.arg.issues[k], lastOp.value[j])

\* C20 as stated: the suggestions of type template that generateSuggestions
\* returns are the templates that getTemplateSuggestions of the
\* TemplateManager returns for the analysis, one suggestion for each and
\* none for any other template.
C20_TemplateSuggestionsComeFromTheStore ==
  (lastOp.op = "generateSuggestions") =>
    LET suggested == SelectSeq(lastOp.value, LAMBDA s : s.type = "template")
        expected == getTemplateSuggestions(Store, lastOp.arg)
    IN /\ Len(suggested) = Len(expected)
       /\ \A k \in 1..Len(expected) :
            \E j \in 1..Len(suggested) : suggested[j].template = expected[k].template
       /\ \A j \in 1..Len(suggested) :
            \E k \in 1..Len(expected) : suggested[j].template = expected[k].template


\* the role-assignment phrases of patterns.needsRole
C21_HasRolePhrase(text) ==
  IncludesAny(toLowerCase(text), {"act as", "you are", "assume you", "pretend", "role of"})

\* the strategic suggestion of the given strategy is among the suggestions
C21_HasStrategic(suggestions, strategy) ==
  \E j \in 1..Len(suggestions) :
    /\ suggestions[j].type = "strategic"
    /\ suggestions[j].enhancementType = strategy

\* the metric of the analysis is there and above the limit
C21_Above(analysis, name, limit) ==
  name \in DOMAIN analysis.metrics /\ analysis.metrics[name] > limit

\* C21 as stated: the suggestions generateSuggestions returns hold a
\* strategic context-addition suggestion exactly when score < 60 and
\* wordCount > 10, a strategic structure-improvement suggestion exactly when
\* wordCount > 100 and sentenceCount > 5, and a strategic role-definition
\* suggestion exactly when complexityScore > 50 and the text holds no
\* role-assignment phrase.
C21_StrategicSuggestionsOnTheirTriggers ==
  (lastOp.op = "generateSuggestions") =>
    LET analysis == lastOp.arg
    IN /\ C21_HasStrategic(lastOp.value, strategies.CONTEXT_ADDITION)
            <=> (analysis.score < 60 /\ C21_Above(analysis, "wordCount", 10))
       /\ C21_HasStrategic(lastOp.value, strategies.STRUCTURE_IMPROVEMENT)
            <=> (C21_Above(analysis, "wordCount", 100)
                 /\ C21_Above(analysis, "sentenceCount", 5))
       /\ C21_HasStrategic(lastOp.value, strategies.ROLE_DEFINITION)
            <=> (C21_Above(analysis, "complexityScore", 50)
                 /\ ~C21_HasRolePhrase(analysis.originalText))


\* the type rank of the claim
C22_TypeRank(type) ==
  CASE type = "issue_fix" -> 3
    [] type = "strategic" -> 2
    [] type = "template" -> 1

\* the issue, template and strategic suggestions generated for the analysis
\* by the call made at the given time, in the order of their generation
C22_Generated(self, analysis, timestamp) ==
  [k \in 1..Len(analysis.issues) |->
     createEnhancementForIssue(analysis.issues[k], analysis, timestamp)]
  \o Enhancer_getTemplateSuggestions(self, analysis)
  \o getStrategicEnhancements(analysis)

\* how many times the suggestion occurs in the list
C22_Count(list, s) == Cardinality({k \in 1..Len(list) : list[k] = s})

\* C22: in the list generateSuggestions returns, of two suggestions the one
\* that comes first has the higher priority or, with equal priorities, a
\* type rank that is not lower (issue_fix 3, strategic 2, template 1); and
\* the list is a permutation of the issue, template and strategic
\* suggestions generated: none dropped, none duplicated.
C22_SortedPermutation ==
  (lastOp.op = "generateSuggestions") =>
    LET list == lastOp.value
        generated == C22_Generated(enhancer, lastOp.arg, now)
    IN /\ \A i \in 1..Len(list) : \A j \in (i + 1)..Len(list) :
            \/ list[i].priority > list[j].priority
            \/ /\ list[i].priority = list[j].priority
               /\ C22_TypeRank(list[i].type) >= C22_TypeRank(list[j].type)
       /\ Len(list) = Len(generated)
       /\ \A k \in 1..Len(generated) :
            C22_Count(list, generated[k]) = C22_Count(generated, generated[k])

\* a list with the three types in which a template suggestion and a
\* strategic suggestion have the same priority and the sort has moved a
\* suggestion
C22_Witness ==
  /\ lastOp.op = "generateSuggestions"
  /\ {lastOp.value[k].type : k \in 1..Len(lastOp.value)}
       = {"issue_fix", "strategic", "template"}
  /\ \E i, j \in 1..Len(lastOp.value) :
       /\ lastOp.value[i].type = "strategic"
       /\ lastOp.value[j].type = "template"
       /\ lastOp.value[i].priority = lastOp.value[j].priority
  /\ lastOp.value # C22_Generated(enhancer, lastOp.arg, now)


\* the analysis holds an issue of the type and the severity
C23_HasIssue(analysis, type, severity) ==
  \E k \in 1..Len(analysis.issues) :
    analysis.issues[k].type = type /\ analysis.issues[k].severity = severity

\* a context keyword occurs in the text, as a whole word
C23_HasContextKeyword(text) ==
  WholeWordMatches(toLowerCase(text),
                   {"context", "background", "scenario", "situation"}) # {}

\* a format keyword occurs in the text
C23_HasFormatKeyword(text) ==
  IncludesAny(toLowerCase(text),
              {"format", "structure", "organize", "list", "table", "bullet"})

\* C23 as stated: the analysis of a text holds a length issue of severity
\* high iff the text has fewer than 15 characters, a length issue of
\* severity medium iff it has more than 2000, a context issue (medium) iff
\* no context keyword occurs and it has more than 30, a role issue (low) iff
\* no role-assignment phrase occurs and it has more than 50, a format issue
\* (low) iff no format keyword occurs and it has more than 40; and no issue
\* type occurs more than once in one analysis.
C23_IssuesOnTheirTriggers ==
  AnalyzedText =>
    LET text == lastOp.arg.value
        analysis == lastOp.value
    IN /\ C23_HasIssue(analysis, "length", "high") <=> Len(text) < 15
       /\ C23_HasIssue(analysis, "length", "medium") <=> Len(text) > 2000
       /\ C23_HasIssue(analysis, "context", "medium")
            <=> (~C23_HasContextKeyword(text) /\ Len(text) > 30)
       /\ C23_HasIssue(analysis, "role", "low")
            <=> (~C21_HasRolePhrase(text) /\ Len(text) > 50)
       /\ C23_HasIssue(analysis, "format", "low")
            <=> (~C23_HasFormatKeyword(text) /\ Len(text) > 40)
       /\ \A j, k \in 1..Len(analysis.issues) :
            analysis.issues[j].type = analysis.issues[k].type => j = k


\* the six patterns of the classification in their order, each with the
\* category it stands for
C24_Order ==
  << "question", "instruction", "analysis", "explanation", "technical", "data" >>

C24_Matches(text, category) ==
  CASE category = "question" -> patterns_question(text)
    [] category = "instruction" -> patterns_instruction(text)
    [] category = "analysis" -> patterns_analysis(text)
    [] category = "explanation" -> patterns_explanation(text)
    [] category = "technical" -> patterns_hasCode(text)
    [] category = "data" -> patterns_hasData(text)

\* C24: the category of an analysed text is that of the earliest of the six
\* patterns (question lead word, instruction verb, analysis verb,
\* explanation verb, code block, data) that matches the text, also when
\* later patterns match too, and it is "general" exactly when none matches.
C24_FirstMatchWins ==
  AnalyzedText =>
    LET text == lastOp.arg.value
        category == lastOp.value.category
    IN /\ \A k \in 1..Len(C24_Order) :
            (/\ C24_Matches(text, C24_Order[k])
             /\ \A j \in 1..(k - 1) : ~C24_Matches(text, C24_Order[j]))
              => category = C24_Order[k]
       /\ category = "general"
            <=> \A k \in 1..Len(C24_Order) : ~C24_Matches(text, C24_Order[k])

\* a text that matches two of the patterns was classified: one that starts
\* with an analysis verb and holds data, or one that holds code and data
C24_Witness ==
  /\ AnalyzedText
  /\ \/ /\ patterns_analysis(lastOp.arg.value)
        /\ patterns_hasData(lastOp.arg.value)
        /\ lastOp.value.category = "analysis"
     \/ /\ patterns_hasCode(lastOp.arg.value)
        /\ patterns_hasData(lastOp.arg.value)
        /\ lastOp.value.category = "technical"


\* how many issues of the analysis have the severity
C25_IssueCount(analysis, severity) ==
  Cardinality({k \in 1..Len(analysis.issues) : analysis.issues[k].severity = severity})

\* the score of the claim: with readabilityScore = num/den the sum
\* 50 + L - P + 0.3 * specificityScore + 0.1 * readabilityScore is the
\* fraction below over 10 * den; rounded to the nearest integer (a half
\* goes up) and clamped to 0..100
C25_Expected(analysis) ==
  LET metrics == analysis.metrics
      L == IF metrics.wordCount >= 50 /\ metrics.wordCount <= 500 THEN 20
           ELSE IF metrics.wordCount < 50 THEN 0 - 15
           ELSE 0 - 10
      P == 15 * C25_IssueCount(analysis, "high")
           + 10 * C25_IssueCount(analysis, "medium")
           + 5 * C25_IssueCount(analysis, "low")
      num == (10 * (50 + L - P) + 3 * metrics.specificityScore)
               * metrics.readabilityScore.den
             + metrics.readabilityScore.num
      den == 10 * metrics.readabilityScore.den
      rounded == (2 * num + den) \div (2 * den)
  IN IF rounded < 0 THEN 0 ELSE IF rounded > 100 THEN 100 ELSE rounded

\* C25: the score of a non-empty text is
\* clamp(round(50 + L - P + 0.3 * specificityScore + 0.1 * readabilityScore), 0, 100)
\* with L = 20 for 50 to 500 words, -15 below 50, -10 above 500, and P = 15
\* for every issue of severity high, 10 for every medium, 5 for every low
\* issue of the analysis.
C25_ScoreFormula ==
  AnalyzedText => lastOp.value.score = C25_Expected(lastOp.value)

\* a text of 50 to 500 words with issues of two severities was analysed and
\* its score is strictly between the two ends
C25_Witness ==
  /\ AnalyzedText
  /\ lastOp.value.metrics.wordCount \in 50..500
  /\ C25_IssueCount(lastOp.value, "medium") > 0
  /\ C25_IssueCount(lastOp.value, "low") > 0
  /\ lastOp.value.score \in 1..99


\* the places where the words /\b[a-z]+\b/g of the lower-cased text start
C26_WordStarts(lower) ==
  { i \in RunStarts(lower, CharClass.letter) :
      /\ WordBoundary(lower, i)
      /\ WordBoundary(lower, SkipClass(lower, i, CharClass.letter)) }

\* the sum over the words of the text of
\* max(1, vowel-group runs, minus 1 if the word ends in "e")
C26_PerWordSum(text) ==
  LET lower == toLowerCase(text)
      starts == C26_WordStarts(lower)
      Body(sum, i) ==
        IF i \notin starts THEN sum
        ELSE LET word == SubSeq(lower, i, SkipClass(lower, i, CharClass.letter) - 1)
                 vowelGroups == Cardinality(RunStarts(word, CharClass.vowel))
                 adjusted == IF Char(word, Len(word)) = "e"
                             THEN vowelGroups - 1 ELSE vowelGroups
             IN sum + Max(1, adjusted)
  IN ForEach(1, Len(lower), 0, Body)

\* C26 as stated: for every text analysed, countSyllables(text) is the sum
\* over its words of max(1, vowel-group runs minus 1 if the word ends in
\* "e"), and so it is never smaller than the number of words counted.
C26_OneSyllablePerWordAtLeast ==
  AnalyzedText =>
    LET text == lastOp.arg.value
    IN /\ countSyllables(text) = C26_PerWordSum(text)
       /\ countSyllables(text) >= Cardinality(C26_WordStarts(toLowerCase(text)))



\* ------------------------------------------------------------------------
\* Properties of the store that hold or fail after any sequence of
\* operations (Spec)
\* ------------------------------------------------------------------------
\* C27 as stated: after any sequence of store operations every id in the
\* favorite set is the id of a template in the store: getTemplate answers
\* null for none of them.
C27_FavoritesAreStored ==
  \A id \in favorites : getTemplate(Store, id) # null


\* C28 as stated: after any sequence of store operations the category index
\* agrees with the templates: an id is in the id list of category c iff the
\* store holds a template under that id whose category is c, so every stored
\* template with one of the six categories is returned by
\* getTemplatesByCategory of its own category and of no other.
C28_CategoryIndexAgrees ==
  /\ \A c \in DOMAIN categories :
       \A id \in MapKeySet(templates)
                  \cup {categories[c][k] : k \in 1..Len(categories[c])} :
         Includes(categories[c], id)
           <=> (MapHas(templates, id) /\ MapGet(templates, id).category = c)
  /\ \A id \in MapKeySet(templates) :
       \A c \in DOMAIN categories :
         (\E k \in 1..Len(getTemplatesByCategory(Store, c)) :
            getTemplatesByCategory(Store, c)[k] = MapGet(templates, id))
           <=> MapGet(templates, id).category = c


\* C29 as stated: after any sequence of store operations
\* exportTemplates(true) returns exactly the templates of the store whose
\* isUserCreated is true, each as it is stored now and once: userTemplates
\* and templates do not disagree about which templates are user-created or
\* about their contents.
C29_UserExportIsTheUserTemplates ==
  LET exported == exportTemplates(Store, TRUE).templates
      userCreated == { MapGet(templates, id) :
                         id \in { k \in MapKeySet(templates) :
                                    MapGet(templates, k).isUserCreated = TRUE } }
  IN /\ { exported[k] : k \in 1..Len(exported) } = userCreated
     /\ Len(exported) = Cardinality(userCreated)



\* ------------------------------------------------------------------------
\* Inserted text in applyTemplate (SpecApply)
\* ------------------------------------------------------------------------
\* the text occurs in the whole as it is
C30_Occurs(text, whole) ==
  \E i \in 1..(Len(whole) - Len(text) + 1) :
    SubSeq(whole, i, i + Len(text) - 1) = text

\* C30 as stated: the originalPrompt inserted for a {prompt} or
\* {original_prompt} token of the content, and the value of any supplied
\* variable inserted for its token, is in the result as it was handed in,
\* also when it holds a {k} token that names another supplied variable:
\* only tokens of the template's own content are substituted.
C30_InsertedTextIsVerbatim ==
  ( /\ lastOp.op = "apply"
    /\ lastOp.error = ""
    /\ MapHas(templates, lastOp.id) )
  => LET content == MapGet(templates, lastOp.id).content
         originalPrompt == lastOp.arg[1]
         variables == lastOp.arg[2]
     IN /\ ( /\ Truthy(originalPrompt)
             /\ \E k \in {"prompt", "original_prompt"} :
                  k \in TokensOf(content) /\ k \notin VarKeys(variables) )
            => C30_Occurs(originalPrompt, lastOp.value)
        /\ \A k \in VarKeys(variables) \cap TokensOf(content) :
             Truthy(VarValue(variables, k))
               => C30_Occurs(VarValue(variables, k), lastOp.value)
====
